---- MODULE Spec2Model ----
(***************************************************************************)
(* Model of src/bot.py: a Telegram bot (python-telegram-bot 13 Updater,    *)
(* use_context=True) that keeps two collections of question/answer        *)
(* entries (guide.json, templates.json) and edits them through four       *)
(* ConversationHandlers.                                                   *)
(*                                                                         *)
(* Library behaviour the model relies on (python-telegram-bot 13):         *)
(*  - all handlers are registered in group 0, so an update is handled by   *)
(*    the first handler, in registration order, whose check_update         *)
(*    accepts it;                                                          *)
(*  - a ConversationHandler with allow_reentry=False tries its entry       *)
(*    points only when the (chat, user) key has no state, otherwise the    *)
(*    handlers of the current state and then the fallbacks; a state with   *)
(*    no handler list only has the fallbacks;                              *)
(*  - a callback returning None leaves the conversation state unchanged,   *)
(*    ConversationHandler.END removes it, any other value is stored;       *)
(*  - a callback that raises leaves the conversation state unchanged and   *)
(*    the dispatcher calls error_handler;                                  *)
(*  - MessageHandler and CommandHandler never accept a callback query;     *)
(*  - telegram.ext.Job forwards unknown attributes to the APScheduler job, *)
(*    which has remove() and has no cancel();                              *)
(*  - jobs of the JobQueue run in the scheduler's thread; each job is      *)
(*    modelled as one atomic step.                                         *)
(* Texts are ASCII stand-ins for the Russian strings of the source.        *)
(***************************************************************************)
EXTENDS Integers, Sequences, FiniteSets, TLC

VARIABLES
    guide,      \* guide.json: the list under "questions"
    templates,  \* templates.json: the list under "templates"
    conv,       \* conv[u][c]: state of ConversationHandler c for key (u, u)
    ud,         \* ud[u]: context.user_data of user u (the session)
    jobs,       \* pending check_album_timeout jobs of the JobQueue
    loading,    \* loading[u]: the messages sent to u's chat: the "loading" messages (sent,
                \* shown), the messages of answers in the chat (answers) and the message
                \* lists of the pending schedule_message_deletion jobs (due); no handler
                \* reads the last two, which are kept only where followed is set
    out,        \* the reply sent for the update handled last ("" when none)
    acked,      \* whether query.answer() was called for it ("none": not a button click)
    kb,         \* the inline keyboard of the page message sent or edited for it
    git,        \* git.up: the remote can be reached; git.mirrored: it holds the files
    running,    \* callbacks a thread has begun and not finished, with their locals
    hist        \* hist[u]: history of the draft u is building (observation only)

vars == <<guide, templates, git, conv, ud, jobs, loading, running, out, acked, kb, hist>>

-----------------------------------------------------------------------------
(* Bounds of the model *)

MaxEntries == 2     \* longest collection explored
MaxJobs == 2        \* most check_album_timeout jobs pending per user
MaxLoading == 2     \* most "loading" messages sent to one chat
MaxDrafts == 2      \* most add dialogs one user opens
MaxAlbumDrafts == 1 \* most add dialogs opened where albums are sent
MaxArrived == 3     \* most photos accepted into one draft
NumPhotos == 3      \* photo file ids 1..NumPhotos
MaxTotal == 31           \* entries in a stored list that is paged


-----------------------------------------------------------------------------
(* Program constants *)

MAX_MEDIA_PER_ALBUM == 10
GUIDE_QUESTION == 0
GUIDE_ANSWER == 1
GUIDE_ANSWER_PHOTOS == 2
GUIDE_EDIT_QUESTION == 3
GUIDE_EDIT_FIELD == 4
GUIDE_EDIT_VALUE == 5
TEMPLATE_QUESTION == 6
TEMPLATE_ANSWER == 7
TEMPLATE_ANSWER_PHOTOS == 8
TEMPLATE_EDIT_QUESTION == 9
TEMPLATE_EDIT_FIELD == 10
TEMPLATE_EDIT_VALUE == 11
END == -1           \* ConversationHandler.END; also "no state for the key"
StatsAdmin == 1     \* the user id 1250098712 allowed to use /stats

Users == {1, 2, 3}
AllowedUsers == {1, 3}          \* load_users(): ALLOWED_USERS

Convs == {"guide_add", "template_add", "guide_edit", "template_edit"}

\* Message texts.  Sentinel stands for the text of the "done" button.
Sentinel == "Gotovo"
MenuGuide == "menu_open_guide"
MenuTemplates == "menu_open_templates"
MenuAdd == "menu_add_point"
MenuEdit == "menu_edit_point"
MenuTexts == {MenuGuide, MenuTemplates, MenuAdd, MenuEdit}
PlainTexts == {"t1"}
Captions == {"", "c1"}          \* "" is a message without caption
PhotoIds == 1..NumPhotos
DocIds == {1}
Commands == {"start", "cancel", "stats", "instruction"}

Kind(dt) == IF dt = "guide" THEN "guide" ELSE "template"

-----------------------------------------------------------------------------
(* context.user_data: a dict, modelled as a function from the keys present. *)
(* None is 0 for the integer valued keys.                                   *)

Clear == [k \in {} |-> TRUE]
Has(s, k) == k \in DOMAIN s
Get(s, k, d) == IF k \in DOMAIN s THEN s[k] ELSE d
Put(s, k, v) == [x \in DOMAIN s \cup {k} |-> IF x = k THEN v ELSE s[x]]
Update(s, r) == [x \in DOMAIN s \cup DOMAIN r |-> IF x \in DOMAIN r THEN r[x] ELSE s[x]]

\* user_data.clear() followed by the two assignments every reset path makes
Reset(state) == [conversation_state |-> state, conversation_active |-> FALSE]

Active(s) == Get(s, "conversation_active", FALSE)
DataType(s) == Get(s, "data_type", "guide")

-----------------------------------------------------------------------------
(* Updates *)

NoUpd == [k |-> "job", text |-> "", file |-> 0, group |-> 0, cap |-> "",
          ok |-> "", cb |-> "", n |-> 0]
TextUpd(t) == [NoUpd EXCEPT !.k = "text", !.text = t]
CmdUpd(c) == [NoUpd EXCEPT !.k = "command", !.text = c]
PhotoUpd(p, g, cap) == [NoUpd EXCEPT !.k = "photo", !.file = p, !.group = g, !.cap = cap]
DocUpd(d, ok, cap) == [NoUpd EXCEPT !.k = "document", !.file = d, !.ok = ok, !.cap = cap]
\* callback_data: edit_{dt}_{cb}_{n}, {dt}_{cb}_{n} or a fixed word; dt is kept in text
CbUpd(cb, dt, n) == [NoUpd EXCEPT !.k = "callback", !.cb = cb, !.text = dt, !.n = n]
OtherUpd == [NoUpd EXCEPT !.k = "other"]

\* update.message.photo: the sizes of one photo, the largest last
PhotoSizes(p) == <<0 - p, p>>
\* update.message.photo[-1].file_id
Largest(upd) == PhotoSizes(upd.file)[Len(PhotoSizes(upd.file))]

-----------------------------------------------------------------------------
(* main(): which handler the dispatcher picks *)

ConvOrder == <<"guide_add", "template_add", "guide_edit", "template_edit">>

IsCancel(upd) == upd.k = "command" /\ upd.text = "cancel"

\* guide_add_conv / template_add_conv with their states q, a, p
AddConvHandler(st, entry, q, a, p, upd) ==
    IF st = END THEN (IF entry THEN "entry" ELSE "none")
    ELSE IF st = q /\ upd.k = "text" THEN "receive_question"
    ELSE IF st = a /\ upd.k \in {"text", "photo", "document"} THEN "receive_answer"
    ELSE IF st = p /\ upd.k \in {"photo", "document"} THEN "receive_answer_files"
    ELSE IF st = p /\ upd.k = "text" THEN "receive_answer"
    ELSE IF st \in {a, p} /\ upd.k = "other" THEN "handle_invalid_input"
    ELSE IF IsCancel(upd) THEN "cancel"
    ELSE "none"

\* guide_edit_conv / template_edit_conv with their states q, f, v
EditConvHandler(st, entry, q, f, v, dt, upd) ==
    IF st = END THEN (IF entry THEN "entry" ELSE "none")
    ELSE IF st = q /\ upd.k = "callback" /\ upd.cb = "edit_question" /\ upd.text = dt
        THEN "select_edit_question"
    ELSE IF st = q /\ upd.k = "callback" /\ upd.cb \in {"edit_page", "cancel_edit"}
            /\ upd.text = dt
        THEN "handle_edit_pagination"
    ELSE IF st = f /\ upd.k = "callback" /\ upd.text = dt
            /\ upd.cb \in {"field_question", "field_answer", "field_photo",
                           "field_delete", "cancel_edit"}
        THEN "receive_edit_field"
    ELSE IF st = v /\ upd.k \in {"text", "photo"} THEN "receive_edit_value"
    ELSE IF st = v /\ upd.k \in {"document", "other"} THEN "handle_invalid_input"
    ELSE IF IsCancel(upd) THEN "cancel"
    ELSE "none"

ConvHandler(c, st, upd) ==
    CASE c = "guide_add" ->
            LET h == AddConvHandler(st, upd.k = "text" /\ upd.text = MenuAdd,
                        GUIDE_QUESTION, GUIDE_ANSWER, GUIDE_ANSWER_PHOTOS, upd)
            IN IF h = "entry" THEN "add_point" ELSE h
      [] c = "template_add" ->
            LET h == AddConvHandler(st, upd.k = "callback" /\ upd.cb = "add_template",
                        TEMPLATE_QUESTION, TEMPLATE_ANSWER, TEMPLATE_ANSWER_PHOTOS, upd)
            IN IF h = "entry" THEN "add_template" ELSE h
      [] c = "guide_edit" ->
            LET h == EditConvHandler(st, upd.k = "text" /\ upd.text = MenuEdit,
                        GUIDE_EDIT_QUESTION, GUIDE_EDIT_FIELD, GUIDE_EDIT_VALUE,
                        "guide", upd)
            IN IF h = "entry" THEN "edit_point" ELSE h
      [] c = "template_edit" ->
            LET h == EditConvHandler(st, upd.k = "callback" /\ upd.cb = "edit_template",
                        TEMPLATE_EDIT_QUESTION, TEMPLATE_EDIT_FIELD, TEMPLATE_EDIT_VALUE,
                        "template", upd)
            IN IF h = "entry" THEN "edit_template" ELSE h

\* the handlers added to the dispatcher after the four conversations
DpHandler(upd) ==
    CASE upd.k = "command" ->
            (CASE upd.text = "start" -> "start"
               [] upd.text = "cancel" -> "cancel"
               [] upd.text = "stats" -> "stats_command"
               [] upd.text = "instruction" -> "show_instruction"
               [] OTHER -> "none")
      [] upd.k = "text" ->
            (CASE upd.text = MenuGuide -> "open_guide"
               [] upd.text = MenuTemplates -> "open_templates"
               [] upd.text = MenuAdd -> "add_point"
               [] upd.text = MenuEdit -> "edit_point"
               [] OTHER -> "perform_search")
      [] upd.k = "callback" ->
            (CASE upd.cb = "page" -> "handle_pagination"
               [] upd.cb = "question" -> "show_answer"
               [] upd.cb \in {"add_template", "edit_template", "cancel_template"}
                    -> "handle_template_action"
               [] upd.cb = "delete_answer" -> "delete_answer"
               [] OTHER -> "none")
      [] OTHER -> "none"

RECURSIVE RouteFrom(_, _, _)
RouteFrom(i, cs, upd) ==
    IF i > Len(ConvOrder) THEN [c |-> "dp", h |-> DpHandler(upd)]
    ELSE LET c == ConvOrder[i]
             h == ConvHandler(c, cs[c], upd)
         IN IF h # "none" THEN [c |-> c, h |-> h] ELSE RouteFrom(i + 1, cs, upd)

Route(cs, upd) == RouteFrom(1, cs, upd)

-----------------------------------------------------------------------------
(* Collections and the draft *)

Upper(dt) == IF dt = "guide" THEN "GUIDE" ELSE "TEMPLATE"

\* load_data(data_type): guide.json for 'guide', templates.json otherwise
Coll(dt) == IF dt = "guide" THEN guide ELSE templates

Ids(coll) == {coll[i].id : i \in 1..Len(coll)}
MaxId(coll) == IF coll = <<>> THEN 0 ELSE CHOOSE m \in Ids(coll) : \A x \in Ids(coll) : x <= m

Elems(seq) == {seq[i] : i \in 1..Len(seq)}

\* list(dict.fromkeys(seq)): the first occurrences, in order
RECURSIVE Unique(_)
Unique(seq) ==
    IF seq = <<>> THEN <<>>
    ELSE LET front == Unique(SubSeq(seq, 1, Len(seq) - 1))
             x == seq[Len(seq)]
         IN IF x \in Elems(front) THEN front ELSE Append(front, x)

FlushPendingReversed(s) ==
    LET fresh(p) == p \notin Elems(s["photos"])
        new == SelectSeq(Unique(s["pending_photos"]), fresh)
    IN Update(s, [photos |-> s["photos"] \o [i \in 1..Len(new) |-> new[Len(new) + 1 - i]],
                  pending_photos |-> <<>>])

FlushPendingAll(s) ==
    Update(s, [photos |-> s["photos"] \o s["pending_photos"], pending_photos |-> <<>>])

\* photos.extend([pid for pid in unique_photos if pid not in photos]); pending_photos = []
FlushPending(s) ==
    LET fresh(p) == p \notin Elems(s["photos"])
    IN Update(s, [photos |-> s["photos"] \o SelectSeq(Unique(s["pending_photos"]), fresh),
                  pending_photos |-> <<>>])

FlushIfPending(s) == IF Get(s, "pending_photos", <<>>) # <<>> THEN FlushPending(s) ELSE s

NewIdByLen(coll) == Len(coll) + 1

NewId(coll) == MaxId(coll) + 1

NewPoint(coll, s) ==
    [id |-> NewId(coll),
     question |-> s["new_question"],
     answer |-> Get(s, "answer", ""),
     photos |-> Get(s, "photos", <<>>),
     documents |-> Get(s, "documents", <<>>)]

SaveNewPointTwice(coll, s) == Append(Append(coll, NewPoint(coll, s)), NewPoint(coll, s))

SaveNewPoint(coll, s) == Append(coll, NewPoint(coll, s))

\* save_data(data_type, data) with the list of data_type replaced by coll
\* sync_with_github after the file is written: nothing to commit when the
\* file did not change; otherwise the push succeeds when the remote can be
\* reached, and a failure is logged only
SyncWithGithub(dt, coll) ==
    git' = [git EXCEPT !.mirrored = IF coll = Coll(dt) THEN @ ELSE git.up]

SaveData(dt, coll) ==
    /\ guide' = IF dt = "guide" THEN coll ELSE guide
    /\ templates' = IF dt = "guide" THEN templates ELSE coll
    /\ SyncWithGithub(dt, coll)

\* the three "if key not in user_data" defaults of receive_answer
AnswerDefaults(s) ==
    Update([photos |-> <<>>, documents |-> <<>>, pending_photos |-> <<>>], s)

AnswerPhotosState(dt) == IF dt = "guide" THEN GUIDE_ANSWER_PHOTOS ELSE TEMPLATE_ANSWER_PHOTOS

\* "if update.message.caption and not context.user_data.get('answer')"
WithCaption(s, upd) ==
    IF upd.cap # "" /\ Get(s, "answer", "") = "" THEN Put(s, "answer", upd.cap) ELSE s

UserJobs(u) == {j \in jobs : j.u = u}
FreeJobIds(u) == (1..MaxJobs) \ {j.id : j \in UserJobs(u)}
\* message ids grow: a new message never takes the id of a deleted one
NoChat == [sent |-> 0, shown |-> {}, followed |-> FALSE, answers |-> {}, due |-> {}]
SendLoading(l) == [l EXCEPT !.sent = @ + 1, !.shown = @ \cup {l.sent + 1}]
KeepLoading(l, m) == l

DeleteLoading(l, m) == [l EXCEPT !.shown = @ \ {m}]
Lowest(S) == CHOOSE m \in S : \A x \in S : m <= x

-----------------------------------------------------------------------------
(* What is recorded of every step *)

NoReturn == -2      \* the callback returned None, or raised

\* the pages of a list
ITEMS_PER_PAGE == 15

Min(a, b) == IF a < b THEN a ELSE b
Max(a, b) == IF a > b THEN a ELSE b
TotalPages(n) == (n + ITEMS_PER_PAGE - 1) \div ITEMS_PER_PAGE
\* a clamp that admits the page after the last
ClampPageHigh(page, n) == Max(0, Min(page, TotalPages(n)))

ClampPage(page, n) == Max(0, Min(page, TotalPages(n) - 1))

\* a page of ITEMS_PER_PAGE - 1 items
VisibleItemsShort(items, page) ==
    SubSeq(items, page * ITEMS_PER_PAGE + 1,
           Min(page * ITEMS_PER_PAGE + ITEMS_PER_PAGE - 1, Len(items)))

\* items[start_idx:end_idx], counted from page 0
VisibleItems(items, page) ==
    SubSeq(items, page * ITEMS_PER_PAGE + 1,
           Min(page * ITEMS_PER_PAGE + ITEMS_PER_PAGE, Len(items)))

\* callback_data is kept as the words that split('_') gives
ItemData(dt, edit, id) ==
    IF edit THEN <<"edit", dt, "question", id>> ELSE <<dt, "question", id>>

PageData(dt, edit, page) ==
    IF edit THEN <<"edit", dt, "page", page>> ELSE <<dt, "page", page>>

\* the buttons below the items, after "previous" and "next"
FixedButtons(dt, edit) ==
    IF edit THEN <<(<<"cancel", dt, "edit">>)>>
    ELSE IF dt = "template"
         THEN <<(<<"add", "template">>), <<"edit", "template">>, <<"cancel", "template">>>>
         ELSE <<>>

NoMarkup == [items |-> <<>>, nav |-> <<>>]

\* the keyboard the four display functions build for page page of items
Markup(items, page, dt, edit) ==
    LET shown == VisibleItems(items, page) IN
    [items |-> [i \in 1..Len(shown) |-> ItemData(dt, edit, shown[i].id)],
     nav |-> (IF page > 0 THEN <<PageData(dt, edit, page - 1)>> ELSE <<>>)
             \o (IF page < TotalPages(Len(items)) - 1
                 THEN <<PageData(dt, edit, page + 1)>> ELSE <<>>)
             \o FixedButtons(dt, edit)]

\* the keyboard of the reply: a page message shows the page, data and
\* data_type the display function has just stored in the session
Rendered(s, reply) ==
    IF reply \in {"page", "edit_page"}
    THEN Markup(s["data"].items, s["page"], s["data_type"], reply = "edit_page")
    ELSE NoMarkup

\* the callbacks that call query.answer(), each as its first statement
AnsweringHandlers ==
    {"show_answer", "handle_pagination", "handle_template_action", "handle_edit_pagination",
     "select_edit_question", "receive_edit_field", "delete_answer"}

Answered(upd, h) ==
    IF upd.k # "callback" THEN "none"
    ELSE IF h \in AnsweringHandlers THEN "yes" ELSE "no"

\* a callback that ran from its first statement to its last with no other
\* thread in between: the chat got reply, and no callback is left part-way
Replied(upd, h, reply) ==
    /\ out' = reply
    /\ acked' = Answered(upd, h)
    /\ UNCHANGED running

\* callback h, or no callback, took the update and the chat got reply, which
\* is no page message
Handled(u, upd, h, reply) ==
    /\ Replied(upd, h, reply)
    /\ kb' = NoMarkup

\* _update_state: the conversation that handled the update stores the returned state
Return(u, c, ret) ==
    conv' = IF c = "dp" \/ ret = NoReturn THEN conv ELSE [conv EXCEPT ![u][c] = ret]

\* one session for all users
FinishShared(u, r, upd, s, ret, reply) ==
    /\ ud' = [v \in Users |-> s]
    /\ Return(u, r.c, ret)
    /\ Replied(upd, r.h, reply)
    /\ kb' = Rendered(s, reply)

Finish(u, r, upd, s, ret, reply) ==
    /\ ud' = [ud EXCEPT ![u] = s]
    /\ Return(u, r.c, ret)
    /\ Replied(upd, r.h, reply)
    /\ kb' = Rendered(s, reply)

\* hist[u]: flow and stage follow the messages of u since an add dialog was
\* opened ("q": the question is awaited, "a": the question was sent); arrived
\* lists the photos accepted since the session last held no photo; timer, intr
\* and saves tell whether check_album_timeout ran on an open album, whether a
\* message that is not an album photo came during an open album, and how many
\* entries were appended, since u last opened an add dialog; left is the number
\* of add dialogs the model still lets u open.
NoHist == [flow |-> "none", stage |-> "", arrived |-> <<>>, timer |-> FALSE,
           intr |-> FALSE, saves |-> 0, left |-> 0]

Grown == (Len(guide') + Len(templates')) - (Len(guide) + Len(templates))

\* an album is open while photos wait in pending_photos
AlbumOpen(s) == Get(s, "pending_photos", <<>>) # <<>>

\* hist[u] after u's update upd: started is the kind of the add dialog the
\* update opened ("" when none), acc the photo accepted into the draft (0 when
\* none).  Must follow the conjuncts setting guide', templates' and ud'.
Observe(u, upd, started, acc) ==
    hist' = [hist EXCEPT ![u] =
        IF started # ""
        THEN [NoHist EXCEPT !.flow = started, !.stage = "q", !.left = hist[u].left - 1]
        ELSE LET inflow == /\ @.flow # "none"
                           /\ upd.k \in {"text", "photo", "document"}
                           /\ ~(@.stage = "q" /\ upd.k # "text")
                           /\ ~(@.stage = "a" /\ upd.k = "text" /\ upd.text = Sentinel)
             IN [flow |-> IF inflow THEN @.flow ELSE "none",
                 stage |-> IF inflow THEN "a" ELSE "",
                 arrived |-> IF acc # 0 THEN Append(@.arrived, acc)
                             ELSE IF Get(ud'[u], "photos", <<>>) = <<>>
                                     /\ Get(ud'[u], "pending_photos", <<>>) = <<>>
                                  THEN <<>> ELSE @.arrived,
                 timer |-> @.timer,
                 intr |-> @.intr \/ (/\ AlbumOpen(ud[u])
                                     /\ upd.k \in {"text", "photo", "document"}
                                     /\ upd.group = 0),
                 saves |-> @.saves + (IF Grown > 0 THEN Grown ELSE 0),
                 left |-> @.left]]

Quiet(u, upd) == Observe(u, upd, "", 0)

\* restrict_access lets the update through and records the display name
Admit(u) == Put(ud[u], "user_display", TRUE)

-----------------------------------------------------------------------------
(* The add dialogs *)

\* add_point and add_template after user_data.clear()
\* a draft that starts with a question left in it
StaleDraft(dt) ==
    [photos |-> <<>>, media_group_id |-> 0, last_photo_time |-> 0,
     point_saved |-> FALSE, loading_message_id |-> 0, timeout_task |-> 0,
     conversation_state |-> "ADD_" \o Upper(dt), conversation_active |-> TRUE,
     data_type |-> dt, new_question |-> "t1"]

NewDraft(dt) ==
    [photos |-> <<>>, media_group_id |-> 0, last_photo_time |-> 0,
     point_saved |-> FALSE, loading_message_id |-> 0, timeout_task |-> 0,
     conversation_state |-> "ADD_" \o Upper(dt), conversation_active |-> TRUE,
     data_type |-> dt]

add_point(u, upd) ==
    LET r == Route(conv[u], upd) IN
    /\ u \in AllowedUsers /\ r.h = "add_point"
    /\ hist[u].left > 0
    /\ Finish(u, r, upd, NewDraft("guide"), GUIDE_QUESTION, "ask_question")
    /\ UNCHANGED <<git, guide, templates, jobs, loading>>
    /\ Observe(u, upd, "guide", 0)

add_template(u, upd) ==
    LET r == Route(conv[u], upd) IN
    /\ u \in AllowedUsers /\ r.h = "add_template"
    /\ hist[u].left > 0
    /\ Finish(u, r, upd, NewDraft("template"), TEMPLATE_QUESTION, "ask_question")
    /\ UNCHANGED <<git, guide, templates, jobs, loading>>
    /\ Observe(u, upd, "template", 0)

receive_question(u, upd) ==
    LET r == Route(conv[u], upd)
        s == Admit(u)
        dt == DataType(s)
    IN
    /\ u \in AllowedUsers /\ r.h = "receive_question"
    /\ IF ~Active(s)
       THEN Finish(u, r, upd, Reset("INVALID_QUESTION"), END, "restart")
       ELSE Finish(u, r, upd,
                Update(s, [new_question |-> upd.text,
                           conversation_state |-> "RECEIVE_" \o Upper(dt) \o "_QUESTION"]),
                IF dt = "guide" THEN GUIDE_ANSWER ELSE TEMPLATE_ANSWER, "ask_answer")
    /\ UNCHANGED <<git, guide, templates, jobs, loading>>
    /\ Quiet(u, upd)

\* receive_answer, "Gotovo": flush, save_new_point, clear
AnswerDone(u, r, upd, s) ==
    LET dt == DataType(s)
        d == FlushIfPending(s)
    IN
    /\ Len(Coll(dt)) < MaxEntries
    /\ SaveData(dt, SaveNewPoint(Coll(dt), d))
    /\ Finish(u, r, upd, Reset(Upper(dt) \o "_FILES_SAVED"), END, "saved")
    /\ UNCHANGED <<jobs, loading>>
    /\ Quiet(u, upd)

\* receive_answer, a photo of an album
AnswerAlbumPhoto(u, r, upd, s) ==
    LET dt == DataType(s)
        s1 == Update(s, [media_group_id |-> upd.group,
                         pending_photos |-> Append(s["pending_photos"], Largest(upd)),
                         last_photo_time |-> 1])
        first == Len(s1["pending_photos"]) = 1
        sched == first /\ Get(s1, "timeout_task", 0) = 0
    IN
    /\ Len(hist[u].arrived) < MaxArrived
    /\ first => loading[u].sent < MaxLoading
    /\ sched => FreeJobIds(u) # {}
    /\ LET m == loading[u].sent + 1
           j == Lowest(FreeJobIds(u))
           s2 == IF first THEN Put(s1, "loading_message_id", m) ELSE s1
           s3 == IF sched THEN Put(s2, "timeout_task", j) ELSE s2
       IN /\ loading' = IF first THEN [loading EXCEPT ![u] = SendLoading(@)] ELSE loading
          /\ jobs' = IF sched THEN jobs \cup {[id |-> j, u |-> u]} ELSE jobs
          /\ Finish(u, r, upd, s3, AnswerPhotosState(dt), IF first THEN "loading" ELSE "")
    /\ UNCHANGED <<git, guide, templates>>
    /\ Observe(u, upd, "", Largest(upd))

AnswerDocumentAny(u, r, upd, s) ==
    /\ Finish(u, r, upd,
              Update(WithCaption(s, upd), [documents |-> Append(s["documents"], upd.file)]),
              AnswerPhotosState(DataType(s)), "doc_added")
    /\ UNCHANGED <<git, guide, templates, jobs, loading>>
    /\ Quiet(u, upd)

\* receive_answer and receive_answer_files, a document
AnswerDocument(u, r, upd, s) ==
    LET dt == DataType(s)
        added == Update(WithCaption(s, upd),
                        [documents |-> Append(s["documents"], upd.file)])
    IN
    /\ CASE upd.ok = "mime" -> Finish(u, r, upd, s, AnswerPhotosState(dt), "bad_type")
         [] upd.ok = "size" -> Finish(u, r, upd, s, AnswerPhotosState(dt), "too_big")
         [] OTHER ->
              IF upd.file \notin Elems(s["documents"])
              THEN Finish(u, r, upd, added, AnswerPhotosState(dt), "doc_added")
              ELSE Finish(u, r, upd, s, AnswerPhotosState(dt), "")
    /\ UNCHANGED <<git, guide, templates, jobs, loading>>
    /\ Quiet(u, upd)

\* receive_answer, any other text: the answer is kept, nothing is saved
AnswerTextCommits(u, r, upd, s) == AnswerDone(u, r, upd, Put(s, "answer", upd.text))

AnswerTextFlushes(u, r, upd, s) ==
    /\ Finish(u, r, upd, FlushIfPending(Put(s, "answer", upd.text)),
              AnswerPhotosState(DataType(s)), "answer_saved")
    /\ UNCHANGED <<git, guide, templates, jobs, loading>>
    /\ Quiet(u, upd)

AnswerText(u, r, upd, s) ==
    /\ Finish(u, r, upd, Put(s, "answer", upd.text), AnswerPhotosState(DataType(s)),
              "answer_saved")
    /\ UNCHANGED <<git, guide, templates, jobs, loading>>
    /\ Quiet(u, upd)

receive_answer(u, upd) ==
    LET r == Route(conv[u], upd)
        s0 == Admit(u)
        s == AnswerDefaults(s0)
        dt == DataType(s)
    IN
    /\ u \in AllowedUsers /\ r.h = "receive_answer"
    /\ IF ~Active(s0) \/ ~Has(s0, "new_question")
       THEN /\ Finish(u, r, upd, Reset("INVALID_ANSWER"), END, "restart")
            /\ UNCHANGED <<git, guide, templates, jobs, loading>>
            /\ Quiet(u, upd)
       ELSE CASE upd.k = "text" /\ upd.text = Sentinel -> AnswerDone(u, r, upd, s)
              [] upd.k = "photo" /\ upd.group # 0 -> AnswerAlbumPhoto(u, r, upd, s)
              [] upd.k = "photo" /\ upd.group = 0 ->
                    /\ Len(hist[u].arrived) < MaxArrived
                    /\ Finish(u, r, upd,
                              WithCaption(Put(s, "photos", <<Largest(upd)>>), upd),
                              AnswerPhotosState(dt), "photo_added")
                    /\ UNCHANGED <<git, guide, templates, jobs, loading>>
                    /\ Observe(u, upd, "", Largest(upd))
              [] upd.k = "document" -> AnswerDocument(u, r, upd, s)
              [] OTHER -> AnswerText(u, r, upd, s)

\* the four "if key not in user_data" defaults of receive_answer_files
FilesDefaults(s) ==
    Update([photos |-> <<>>, documents |-> <<>>, pending_photos |-> <<>>,
            last_photo_time |-> 0], s)

\* receive_answer_files, a photo of an album: the debounce job is replaced
FilesAlbumPhoto(u, r, upd, s) ==
    LET dt == DataType(s)
        old == Get(s, "timeout_task", 0)
        kept == IF old # 0 THEN jobs \ {[id |-> old, u |-> u]} ELSE jobs
        free == (1..MaxJobs) \ {j.id : j \in {x \in kept : x.u = u}}
    IN
    /\ free # {}
    /\ jobs' = kept \cup {[id |-> Lowest(free), u |-> u]}
    /\ Finish(u, r, upd,
              Update(s, [last_photo_time |-> 1, timeout_task |-> Lowest(free)]),
              AnswerPhotosState(dt), "")
    /\ UNCHANGED <<git, guide, templates, loading>>
    /\ Observe(u, upd, "", Largest(upd))

receive_answer_files(u, upd) ==
    LET r == Route(conv[u], upd)
        s == FilesDefaults(Admit(u))
        dt == DataType(s)
        total_files == Len(s["photos"]) + Len(s["documents"])
        new_photo == Largest(upd)
        s1 == IF new_photo \in Elems(s["pending_photos"]) THEN s
              ELSE Put(s, "pending_photos", Append(s["pending_photos"], new_photo))
        s2 == WithCaption(s1, upd)
    IN
    /\ u \in AllowedUsers /\ r.h = "receive_answer_files"
    /\ CASE total_files >= MAX_MEDIA_PER_ALBUM ->
              /\ Finish(u, r, upd, FlushIfPending(s), AnswerPhotosState(dt), "too_many")
              /\ UNCHANGED <<git, guide, templates, jobs, loading>>
              /\ Quiet(u, upd)
         [] upd.k = "photo" /\ total_files < MAX_MEDIA_PER_ALBUM ->
              /\ Len(hist[u].arrived) < MaxArrived
              /\ IF upd.group # 0
                 THEN FilesAlbumPhoto(u, r, upd, s2)
                 ELSE /\ Finish(u, r, upd, FlushPending(s2), AnswerPhotosState(dt),
                                "photos_added")
                      /\ UNCHANGED <<git, guide, templates, jobs, loading>>
                      /\ Observe(u, upd, "", new_photo)
         [] OTHER -> AnswerDocument(u, r, upd, s)

\* the JobQueue runs job j: check_album_timeout
check_album_timeout(j) ==
    LET u == j.u
        s == ud[u]
        open == AlbumOpen(s)
        s1 == IF open THEN FlushPending(s) ELSE s
    IN
    /\ j \in jobs
    /\ jobs' = jobs \ {j}
    /\ loading' = [loading EXCEPT ![u] = DeleteLoading(@, Get(s, "loading_message_id", 0))]
    /\ ud' = [ud EXCEPT ![u] = Update(s1, [media_group_id |-> 0, last_photo_time |-> 0,
                                           timeout_task |-> 0])]
    /\ Handled(u, NoUpd, "check_album_timeout", IF open THEN "photos_added" ELSE "")
    /\ hist' = [hist EXCEPT ![u].timer = @ \/ open]
    /\ UNCHANGED <<git, guide, templates, conv>>

\* the dispatcher caught an exception of the callback and called error_handler
Raised(u, r, upd) ==
    /\ Finish(u, r, upd, Reset("ERROR"), NoReturn, "error")
    /\ UNCHANGED <<git, guide, templates, jobs, loading>>
    /\ Quiet(u, upd)

\* timeout_task.cancel() raises AttributeError when a job is recorded
cancel(u, upd) ==
    LET r == Route(conv[u], upd) IN
    /\ u \in AllowedUsers /\ r.h = "cancel"
    /\ IF Get(ud[u], "timeout_task", 0) # 0
       THEN Raised(u, r, upd)
       ELSE /\ Finish(u, r, upd, Reset("CANCELLED"), END, "cancelled")
            /\ UNCHANGED <<git, guide, templates, jobs, loading>>
            /\ Quiet(u, upd)

handle_invalid_input(u, upd) ==
    LET r == Route(conv[u], upd) IN
    /\ u \in AllowedUsers /\ r.h = "handle_invalid_input"
    /\ Finish(u, r, upd, Reset("INVALID_INPUT"), END, "invalid_input")
    /\ UNCHANGED <<git, guide, templates, jobs, loading>>
    /\ Quiet(u, upd)

-----------------------------------------------------------------------------
(* Pages *)

Key(dt) == IF dt = "guide" THEN "questions" ELSE "templates"

\* load_data(data_type): the dict read from the file
LoadData(dt) == [key |-> Key(dt), items |-> Coll(dt)]

\* display_guide_page and display_template_page: the session and the reply;
\* data[key] raises KeyError when data holds the other list
DisplayPage(s, data, page, dt) ==
    IF data.key # Key(dt) THEN [s |-> s, reply |-> "page_error"]
    ELSE [s |-> Update(s, [page |-> ClampPage(page, Len(data.items)), data |-> data,
                           data_type |-> dt,
                           conversation_state |-> Upper(dt) \o "_PAGE",
                           conversation_active |-> FALSE]),
          reply |-> "page"]

\* display_guide_edit_page and display_template_edit_page
DisplayEditPage(s, data, page, dt) ==
    IF data.key # Key(dt) THEN [s |-> Reset("ERROR"), reply |-> "edit_page_error"]
    ELSE [s |-> Update(s, [page |-> ClampPage(page, Len(data.items)), data |-> data,
                           data_type |-> dt,
                           conversation_state |-> "EDIT_" \o Upper(dt) \o "_PAGE"]),
          reply |-> "edit_page"]

\* clear_chat, the job start, open_guide, open_templates and show_instruction
\* schedule: each of the 49 messages before the update is deleted unless
\* Telegram refuses
ClearChat(u) ==
    \E keep \in SUBSET loading[u].shown, kept \in SUBSET loading[u].answers :
        loading' = [loading EXCEPT ![u].shown = keep, ![u].answers = kept]

-----------------------------------------------------------------------------
(* The edit dialogs *)

EditQuestionState(dt) == IF dt = "guide" THEN GUIDE_EDIT_QUESTION ELSE TEMPLATE_EDIT_QUESTION
EditFieldState(dt) == IF dt = "guide" THEN GUIDE_EDIT_FIELD ELSE TEMPLATE_EDIT_FIELD
EditValueState(dt) == IF dt = "guide" THEN GUIDE_EDIT_VALUE ELSE TEMPLATE_EDIT_VALUE

\* the body of edit_point (dt = "guide") and of edit_template
EditStart(u, r, upd, dt) ==
    LET s0 == [conversation_state |-> "EDIT_" \o Upper(dt), conversation_active |-> TRUE,
               data_type |-> dt]
        data == LoadData(dt)
        d == DisplayEditPage(Update(s0, [data |-> data, page |-> 0]), data, 0, dt)
    IN
    /\ IF data.items = <<>>
       THEN Finish(u, r, upd, [s0 EXCEPT !.conversation_active = FALSE], END, "nothing_to_edit")
       ELSE Finish(u, r, upd, d.s, EditQuestionState(dt), d.reply)
    /\ UNCHANGED <<git, guide, templates, jobs, loading>>
    /\ Quiet(u, upd)

edit_point(u, upd) ==
    LET r == Route(conv[u], upd) IN
    /\ u \in AllowedUsers /\ r.h = "edit_point"
    /\ EditStart(u, r, upd, "guide")

edit_template(u, upd) ==
    LET r == Route(conv[u], upd) IN
    /\ u \in AllowedUsers /\ r.h = "edit_template"
    /\ EditStart(u, r, upd, "template")

handle_edit_pagination(u, upd) ==
    LET r == Route(conv[u], upd)
        s == Admit(u)
        dt == upd.text
        d == DisplayEditPage(s, Get(s, "data", LoadData(dt)), upd.n, dt)
    IN
    /\ u \in AllowedUsers /\ r.h = "handle_edit_pagination"
    /\ IF upd.cb = "cancel_edit"
       THEN Finish(u, r, upd, Reset("CANCEL_" \o Upper(dt) \o "_EDIT"), END, "edit_cancelled")
       ELSE Finish(u, r, upd, d.s, EditQuestionState(dt), d.reply)
    /\ UNCHANGED <<git, guide, templates, jobs, loading>>
    /\ Quiet(u, upd)

select_edit_question(u, upd) ==
    LET r == Route(conv[u], upd)
        dt == upd.text
    IN
    /\ u \in AllowedUsers /\ r.h = "select_edit_question"
    /\ Finish(u, r, upd,
              Update(Admit(u), [edit_question_id |-> upd.n,
                                conversation_state |-> "SELECT_EDIT_" \o Upper(dt) \o "_QUESTION"]),
              EditFieldState(dt), "choose_field")
    /\ UNCHANGED <<git, guide, templates, jobs, loading>>
    /\ Quiet(u, upd)

\* [q for q in data[key] if q["id"] != question_id]
WithoutFirst(coll, id) == IF coll = <<>> THEN coll ELSE Tail(coll)

WithoutId(coll, id) == LET other(q) == q.id # id IN SelectSeq(coll, other)

HasId(coll, id) == \E i \in 1..Len(coll) : coll[i].id = id

\* next((q for q in data[key] if q["id"] == question_id), None): its index
IndexOfId(coll, id) == CHOOSE i \in 1..Len(coll) :
                            coll[i].id = id /\ \A j \in 1..(i - 1) : coll[j].id # id

receive_edit_field(u, upd) ==
    LET r == Route(conv[u], upd)
        dt == upd.text
        s == Update(Admit(u), [edit_field |-> <<dt, upd.cb>>,
                               conversation_state |-> "RECEIVE_" \o Upper(dt) \o "_EDIT_FIELD"])
    IN
    /\ u \in AllowedUsers /\ r.h = "receive_edit_field"
    /\ CASE upd.cb = "cancel_edit" ->
              /\ Finish(u, r, upd, Reset("CANCEL_" \o Upper(dt) \o "_EDIT"), END, "edit_cancelled")
              /\ UNCHANGED <<git, guide, templates>>
         [] upd.cb # "cancel_edit" /\ ~Has(s, "edit_question_id") ->
              /\ Finish(u, r, upd, Reset("ERROR"), END, "field_error")
              /\ UNCHANGED <<git, guide, templates>>
         [] upd.cb = "field_delete" /\ Has(s, "edit_question_id") ->
              /\ SaveData(dt, WithoutId(Coll(dt), s["edit_question_id"]))
              /\ Finish(u, r, upd, Reset(Upper(dt) \o "_POINT_DELETED"), END, "deleted")
         [] OTHER ->
              /\ IF HasId(Coll(dt), s["edit_question_id"])
                 THEN Finish(u, r, upd, s, EditValueState(dt), "ask_value")
                 ELSE Finish(u, r, upd, Reset("ERROR"), END, "not_found")
              /\ UNCHANGED <<git, guide, templates>>
    /\ UNCHANGED <<jobs, loading>>
    /\ Quiet(u, upd)

\* the item after receive_edit_value; update.message.text is None ("") for a photo
\* the new photo is added to the photos of the entry
EditedItemAppends(item, edit_field, dt, upd) ==
    CASE edit_field = <<dt, "field_question">> -> [item EXCEPT !.question = upd.text]
      [] edit_field = <<dt, "field_answer">> -> [item EXCEPT !.answer = upd.text]
      [] edit_field = <<dt, "field_photo">> /\ upd.k = "photo" ->
            [item EXCEPT !.photos = @ \o PhotoSizes(upd.file), !.documents = <<>>]
      [] OTHER -> item

EditedItem(item, edit_field, dt, upd) ==
    CASE edit_field = <<dt, "field_question">> -> [item EXCEPT !.question = upd.text]
      [] edit_field = <<dt, "field_answer">> -> [item EXCEPT !.answer = upd.text]
      [] edit_field = <<dt, "field_photo">> /\ upd.k = "photo" ->
            [item EXCEPT !.photos = PhotoSizes(upd.file), !.documents = <<>>]
      [] OTHER -> item

receive_edit_value(u, upd) ==
    LET r == Route(conv[u], upd)
        s == Admit(u)
        dt == DataType(s)
    IN
    /\ u \in AllowedUsers /\ r.h = "receive_edit_value"
    /\ IF ~Has(s, "edit_field") \/ ~Has(s, "edit_question_id")
       THEN /\ Finish(u, r, upd, Reset("ERROR"), END, "value_error")
            /\ UNCHANGED <<git, guide, templates>>
       ELSE IF ~HasId(Coll(dt), s["edit_question_id"])
       THEN /\ Finish(u, r, upd, Reset("ERROR"), END, "not_found")
            /\ UNCHANGED <<git, guide, templates>>
       ELSE LET i == IndexOfId(Coll(dt), s["edit_question_id"])
            IN /\ SaveData(dt, [Coll(dt) EXCEPT
                                   ![i] = EditedItem(@, s["edit_field"], dt, upd)])
               /\ Finish(u, r, upd, Reset(Upper(dt) \o "_EDITED"), END, "edited")
    /\ UNCHANGED <<jobs, loading>>
    /\ Quiet(u, upd)

-----------------------------------------------------------------------------
(* Browsing *)

\* open_guide (dt = "guide") and open_templates
OpenList(u, upd, dt) ==
    LET r == Route(conv[u], upd)
        s == [conversation_state |-> "OPEN_" \o Upper(dt), conversation_active |-> FALSE,
              data_type |-> dt]
        d == DisplayPage(s, LoadData(dt), 0, dt)
    IN
    /\ u \in AllowedUsers
    /\ ClearChat(u)
    /\ IF Coll(dt) = <<>>
       THEN Finish(u, r, upd, s, END, "empty")
       ELSE Finish(u, r, upd, d.s, END, d.reply)
    /\ UNCHANGED <<git, guide, templates, jobs>>
    /\ Quiet(u, upd)

open_guide(u, upd) ==
    /\ Route(conv[u], upd).h = "open_guide"
    /\ OpenList(u, upd, "guide")

open_templates(u, upd) ==
    /\ Route(conv[u], upd).h = "open_templates"
    /\ OpenList(u, upd, "template")

handle_pagination(u, upd) ==
    LET r == Route(conv[u], upd)
        s == Admit(u)
        dt == upd.text
        d == DisplayPage(s, Get(s, "data", LoadData(dt)), upd.n, dt)
    IN
    /\ u \in AllowedUsers /\ r.h = "handle_pagination"
    /\ Finish(u, r, upd,
              Update(d.s, [conversation_state |-> Upper(dt) \o "_PAGINATION",
                           conversation_active |-> FALSE]),
              END, d.reply)
    /\ UNCHANGED <<git, guide, templates, jobs, loading>>
    /\ Quiet(u, upd)

\* the messages show_answer sends for an item
AnswerMessages(item) ==
    LET np == Len(item.photos)
        nd == Len(item.documents)
    IN (IF np = 0 THEN 0 ELSE IF np = 1 THEN 1 ELSE np + 1)
       + nd
       + (IF np > 0 /\ nd > 0 THEN 1 ELSE 0)
       + (IF np = 0 /\ nd = 0 THEN 1 ELSE 0)

\* the ids of the messages of an answer: message i of the answer to entry id
\* of collection dt is <<dt, id, i>>, also when the answer is sent again
MessageIds(dt, item) == [i \in 1..AnswerMessages(item) |-> <<dt, item.id, i>>]

\* the messages are sent and no deletion job is scheduled for them
SentUnscheduled(l, ids) ==
    IF l.followed THEN [l EXCEPT !.answers = @ \cup Elems(ids)] ELSE l

\* the messages are sent; job_queue.run_once(schedule_message_deletion, 1800, ...)
SentAnswer(l, ids) ==
    IF l.followed THEN [l EXCEPT !.answers = @ \cup Elems(ids), !.due = @ \cup {ids}] ELSE l

\* context.bot.delete_message for each id; a message that is gone is skipped
DeletedMessages(l, ids) == [l EXCEPT !.answers = @ \ Elems(ids)]

show_answer(u, upd) ==
    LET r == Route(conv[u], upd)
        s == Admit(u)
        dt == upd.text
        coll == Coll(dt)
    IN
    /\ u \in AllowedUsers /\ r.h = "show_answer"
    /\ IF ~HasId(coll, upd.n)
       THEN /\ Finish(u, r, upd, s, NoReturn, "not_found")
            /\ UNCHANGED loading
       ELSE LET message_ids == MessageIds(dt, coll[IndexOfId(coll, upd.n)]) IN
            /\ Finish(u, r, upd,
                      Update(s, [answer_message_ids |-> message_ids,
                                 current_question_id |-> upd.n]),
                      NoReturn, "answer")
            /\ loading' = [loading EXCEPT ![u] = SentAnswer(@, message_ids)]
    /\ UNCHANGED <<git, guide, templates, jobs>>
    /\ Quiet(u, upd)

delete_answer(u, upd) ==
    LET r == Route(conv[u], upd)
        s == Admit(u)
        message_ids == Get(s, "answer_message_ids", <<>>)
    IN
    /\ u \in AllowedUsers /\ r.h = "delete_answer"
    /\ IF message_ids = <<>>
       THEN Finish(u, r, upd, s, END, "")
       ELSE Finish(u, r, upd,
                   Update(s, [answer_message_ids |-> <<>>, current_question_id |-> 0,
                              conversation_state |-> "DELETE_ANSWER",
                              conversation_active |-> FALSE]),
                   END, "")
    /\ loading' = [loading EXCEPT ![u] = DeletedMessages(@, message_ids)]
    /\ UNCHANGED <<git, guide, templates, jobs>>
    /\ Quiet(u, upd)

\* the job show_answer scheduled for the messages ids of u's chat
schedule_message_deletion(u, ids) ==
    /\ ids \in loading[u].due
    /\ loading' = [loading EXCEPT ![u] = [DeletedMessages(@, ids) EXCEPT !.due = @ \ {ids}]]
    /\ Handled(u, NoUpd, "schedule_message_deletion", "")
    /\ UNCHANGED <<git, guide, templates, conv, ud, jobs, hist>>

\* the texts of the model are one word in normal form
Matches(q, keyword) == keyword = q.question \/ keyword = q.answer

perform_search(u, upd) ==
    LET r == Route(conv[u], upd)
        s == Admit(u)
        found(q) == Matches(q, upd.text)
        results == [key |-> "questions", items |-> SelectSeq(guide, found)]
        s1 == Update(s, [data |-> results, page |-> 0, data_type |-> "guide",
                         conversation_state |-> "SEARCH", conversation_active |-> FALSE,
                         search_query |-> upd.text])
        d == DisplayPage(s1, results, 0, "guide")
    IN
    /\ u \in AllowedUsers /\ r.h = "perform_search"
    /\ IF Active(s) THEN Finish(u, r, upd, s, NoReturn, "")
       ELSE IF results.items = <<>> THEN Finish(u, r, upd, s, NoReturn, "nothing_found")
       ELSE Finish(u, r, upd, d.s, NoReturn, d.reply)
    /\ UNCHANGED <<git, guide, templates, jobs, loading>>
    /\ Quiet(u, upd)

show_instruction(u, upd) ==
    LET r == Route(conv[u], upd) IN
    /\ u \in AllowedUsers /\ r.h = "show_instruction"
    /\ ClearChat(u)
    /\ Finish(u, r, upd,
              Update(Admit(u), [conversation_state |-> "SHOW_INSTRUCTION",
                                conversation_active |-> FALSE]),
              END, "instruction")
    /\ UNCHANGED <<git, guide, templates, jobs>>
    /\ Quiet(u, upd)

\* handle_template_action calls add_template and edit_template outside a dialog
handle_template_action(u, upd) ==
    LET r == Route(conv[u], upd) IN
    /\ u \in AllowedUsers /\ r.h = "handle_template_action"
    /\ CASE upd.cb = "add_template" ->
              /\ hist[u].left > 0
              /\ Finish(u, r, upd, NewDraft("template"), TEMPLATE_QUESTION, "ask_question")
              /\ UNCHANGED <<git, guide, templates, jobs, loading>>
              /\ Observe(u, upd, "template", 0)
         [] upd.cb = "edit_template" -> EditStart(u, r, upd, "template")
         [] OTHER ->
              /\ Finish(u, r, upd, Reset("CANCEL_TEMPLATE"), END, "menu")
              /\ UNCHANGED <<git, guide, templates, jobs, loading>>
              /\ Quiet(u, upd)

-----------------------------------------------------------------------------
(* Commands and access *)

\* start, with the clear_chat job it schedules
start(u, upd) ==
    LET r == Route(conv[u], upd) IN
    /\ u \in AllowedUsers /\ r.h = "start"
    /\ ClearChat(u)
    /\ Finish(u, r, upd, Clear, END, "welcome")
    /\ UNCHANGED <<git, guide, templates, jobs>>
    /\ Quiet(u, upd)

\* stats_command is registered without restrict_access
stats_command(u, upd) ==
    LET r == Route(conv[u], upd) IN
    /\ r.h = "stats_command"
    /\ Handled(u, upd, r.h, IF u # StatsAdmin THEN "stats_restricted" ELSE "stats_sent")
    /\ UNCHANGED <<git, guide, templates, conv, ud, jobs, loading>>
    /\ Quiet(u, upd)

\* restrict_access: the wrapper of every other handler refuses an unlisted user
Denied(u, upd) ==
    LET r == Route(conv[u], upd) IN
    /\ u \notin AllowedUsers /\ r.h \notin {"none", "stats_command"}
    /\ Handled(u, upd, "restrict_access", "denied")
    /\ UNCHANGED <<git, guide, templates, conv, ud, jobs, loading, hist>>

\* no handler accepts the update
Unhandled(u, upd) ==
    LET r == Route(conv[u], upd) IN
    /\ r.h = "none"
    /\ Handled(u, upd, "none", "")
    /\ UNCHANGED <<git, guide, templates, conv, ud, jobs, loading>>
    /\ Quiet(u, upd)

-----------------------------------------------------------------------------
(* The system *)

\* the dispatcher processes update upd of user u
Deliver(u, upd) ==
    \/ add_point(u, upd) \/ add_template(u, upd) \/ receive_question(u, upd)
    \/ receive_answer(u, upd) \/ receive_answer_files(u, upd)
    \/ cancel(u, upd) \/ handle_invalid_input(u, upd)
    \/ edit_point(u, upd) \/ edit_template(u, upd) \/ handle_edit_pagination(u, upd)
    \/ select_edit_question(u, upd) \/ receive_edit_field(u, upd)
    \/ receive_edit_value(u, upd)
    \/ open_guide(u, upd) \/ open_templates(u, upd) \/ handle_pagination(u, upd)
    \/ show_answer(u, upd) \/ delete_answer(u, upd) \/ perform_search(u, upd)
    \/ show_instruction(u, upd) \/ handle_template_action(u, upd)
    \/ start(u, upd) \/ stats_command(u, upd) \/ Denied(u, upd) \/ Unhandled(u, upd)

Entry(id, q, a) == [id |-> id, question |-> q, answer |-> a, photos |-> <<>>,
                    documents |-> <<>>]

\* the files hold g and t when the bot starts and the remote mirrors them; it
\* can be reached or not; every user may open left add dialogs
InitChat(g, t, left, up, followed) ==
    /\ guide = g
    /\ templates = t
    /\ git = [up |-> up, mirrored |-> TRUE]
    /\ conv = [u \in Users |-> [c \in Convs |-> END]]
    /\ ud = [u \in Users |-> Clear]
    /\ jobs = {}
    /\ loading = [u \in Users |-> [NoChat EXCEPT !.followed = followed]]
    /\ out = ""
    /\ acked = "none"
    /\ running = {}
    /\ kb = NoMarkup
    /\ hist = [u \in Users |-> [NoHist EXCEPT !.left = left]]

\* the same, the answers sent to the chats not followed
InitState(g, t, left, up) == InitChat(g, t, left, up, FALSE)

\* the same, the remote within reach
InitWith(g, t, left) == InitState(g, t, left, TRUE)

(* Adding entries with text: user 1, both add dialogs *)

Init == \E g \in {<<>>, <<Entry(2, "t1", "t1")>>} : InitWith(g, <<>>, MaxDrafts)

AddUpdates ==
    {TextUpd(t) : t \in {MenuAdd, Sentinel} \cup PlainTexts}
    \cup {CmdUpd("cancel"), CbUpd("add_template", "", 0), OtherUpd}

Next ==
    \/ \E upd \in AddUpdates : add_point(1, upd)
    \/ \E upd \in AddUpdates : add_template(1, upd)
    \/ \E upd \in AddUpdates : handle_template_action(1, upd)
    \/ \E upd \in AddUpdates : receive_question(1, upd)
    \/ \E upd \in AddUpdates : receive_answer(1, upd)
    \/ \E upd \in AddUpdates : cancel(1, upd)
    \/ \E upd \in AddUpdates : handle_invalid_input(1, upd)
    \/ \E upd \in AddUpdates : perform_search(1, upd)
    \/ \E upd \in AddUpdates : Unhandled(1, upd)

Spec == Init /\ [][Next]_vars

(* Albums: user 1 builds one guide entry with photos *)

InitAlbum == InitWith(<<>>, <<>>, MaxAlbumDrafts)

AlbumUpdates ==
    {TextUpd(t) : t \in {MenuAdd, Sentinel} \cup PlainTexts}
    \cup {PhotoUpd(p, 1, "") : p \in PhotoIds}
    \cup {PhotoUpd(1, 0, "")}

NextAlbum ==
    \/ \E upd \in AlbumUpdates : add_point(1, upd)
    \/ \E upd \in AlbumUpdates : receive_question(1, upd)
    \/ \E upd \in AlbumUpdates : receive_answer(1, upd)
    \/ \E upd \in AlbumUpdates : receive_answer_files(1, upd)
    \/ \E j \in jobs : check_album_timeout(j)
    \/ \E upd \in AlbumUpdates : perform_search(1, upd)
    \/ \E upd \in AlbumUpdates : Unhandled(1, upd)

SpecAlbum == InitAlbum /\ [][NextAlbum]_vars

(* Editing: user 1 edits and deletes stored entries and browses *)

InitEdit ==
    InitWith(<<Entry(1, "t1", "t1"), Entry(3, "t1", "c1")>>, <<Entry(1, "t1", "t1")>>, 0)

EditUpdates ==
    {TextUpd(t) : t \in {MenuEdit} \cup PlainTexts}
    \cup {CmdUpd("cancel"), CmdUpd("instruction")}
    \cup {CbUpd("edit_question", "guide", n) : n \in {1, 3}}
    \cup {CbUpd(f, "guide", 0) : f \in {"field_question", "field_delete", "cancel_edit"}}
    \cup {CbUpd("edit_page", "guide", 1), CbUpd("edit_template", "", 0),
          CbUpd("edit_question", "template", 1), CbUpd("field_delete", "template", 0)}
    \cup {CbUpd("page", "guide", 0), CbUpd("question", "guide", 1),
          CbUpd("delete_answer", "", 0)}

NextEdit ==
    \/ \E upd \in EditUpdates : cancel(1, upd)
    \/ \E upd \in EditUpdates : edit_point(1, upd)
    \/ \E upd \in EditUpdates : edit_template(1, upd)
    \/ \E upd \in EditUpdates : handle_template_action(1, upd)
    \/ \E upd \in EditUpdates : handle_edit_pagination(1, upd)
    \/ \E upd \in EditUpdates : select_edit_question(1, upd)
    \/ \E upd \in EditUpdates : receive_edit_field(1, upd)
    \/ \E upd \in EditUpdates : receive_edit_value(1, upd)
    \/ \E upd \in EditUpdates : handle_pagination(1, upd)
    \/ \E upd \in EditUpdates : show_answer(1, upd)
    \/ \E upd \in EditUpdates : delete_answer(1, upd)
    \/ \E upd \in EditUpdates : show_instruction(1, upd)
    \/ \E upd \in EditUpdates : perform_search(1, upd)
    \/ \E upd \in EditUpdates : Unhandled(1, upd)

SpecEdit == InitEdit /\ [][NextEdit]_vars

(* Identifiers: user 1 adds guide entries and deletes them *)

InitIds == InitWith(<<Entry(2, "t1", "t1")>>, <<>>, MaxDrafts)

IdsUpdates ==
    {TextUpd(t) : t \in {MenuAdd, MenuEdit, Sentinel} \cup PlainTexts}
    \cup {CbUpd("edit_question", "guide", n) : n \in 1..(MaxEntries + 1)}
    \cup {CbUpd("field_delete", "guide", 0)}

NextIds ==
    \/ \E upd \in IdsUpdates : add_point(1, upd)
    \/ \E upd \in IdsUpdates : receive_question(1, upd)
    \/ \E upd \in IdsUpdates : receive_answer(1, upd)
    \/ \E upd \in IdsUpdates : edit_point(1, upd)
    \/ \E upd \in IdsUpdates : select_edit_question(1, upd)
    \/ \E upd \in IdsUpdates : receive_edit_field(1, upd)
    \/ \E upd \in IdsUpdates : perform_search(1, upd)
    \/ \E upd \in IdsUpdates : Unhandled(1, upd)

SpecIds == InitIds /\ [][NextIds]_vars

(* Access: user 2, who is not listed, sends every kind of update while user 1 *)
(* adds a guide entry                                                         *)

InitAccess == InitWith(<<>>, <<Entry(1, "t1", "t1")>>, 1)

ListedUpdates ==
    {TextUpd(t) : t \in {MenuAdd, Sentinel} \cup PlainTexts}
    \cup {CmdUpd("start"), CmdUpd("stats")}

UnlistedUpdates ==
    {TextUpd(t) : t \in MenuTexts \cup PlainTexts}
    \cup {CmdUpd(c) : c \in Commands}
    \cup {PhotoUpd(1, 0, ""), DocUpd(1, "ok", ""), OtherUpd}
    \cup {CbUpd("page", "guide", 0), CbUpd("question", "template", 1),
          CbUpd("add_template", "", 0), CbUpd("edit_template", "", 0),
          CbUpd("cancel_template", "", 0), CbUpd("delete_answer", "", 0)}

NextAccess ==
    \/ \E upd \in ListedUpdates : add_point(1, upd)
    \/ \E upd \in ListedUpdates : receive_question(1, upd)
    \/ \E upd \in ListedUpdates : receive_answer(1, upd)
    \/ \E upd \in ListedUpdates : perform_search(1, upd)
    \/ \E upd \in ListedUpdates : start(1, upd)
    \/ \E upd \in ListedUpdates : stats_command(1, upd)
    \/ \E upd \in UnlistedUpdates : stats_command(2, upd)
    \/ \E upd \in UnlistedUpdates : Denied(2, upd)
    \/ \E upd \in UnlistedUpdates : Unhandled(2, upd)

SpecAccess == InitAccess /\ [][NextAccess]_vars

(* The cap: user 1 holds a guide draft with MAX_MEDIA_PER_ALBUM - 1 photos,   *)
(* sent one by one, and sends an album and documents                         *)

\* the photos sent one by one before: file ids other than PhotoIds
Stock == [i \in 1..(MAX_MEDIA_PER_ALBUM - 1) |-> NumPhotos + i]

\* user_data after add_point, the question q, and the photos of Stock sent one
\* by one without album id (receive_answer, then receive_answer_files)
StockedDraft(q) ==
    Update(NewDraft("guide"),
           [user_display |-> TRUE, new_question |-> q,
            conversation_state |-> "RECEIVE_GUIDE_QUESTION",
            documents |-> <<>>, pending_photos |-> <<>>, photos |-> Stock])

\* hist[1].arrived lists the photos accepted after this state only
InitCap ==
    /\ guide = <<>>
    /\ templates = <<>>
    /\ git = [up |-> TRUE, mirrored |-> TRUE]
    /\ conv = [u \in Users |-> [c \in Convs |->
                  IF u = 1 /\ c = "guide_add" THEN GUIDE_ANSWER_PHOTOS ELSE END]]
    /\ ud = [u \in Users |-> IF u = 1 THEN StockedDraft("t1") ELSE Clear]
    /\ jobs = {}
    /\ loading = [u \in Users |-> NoChat]
    /\ out = "photos_added"
    /\ acked = "none"
    /\ running = {}
    /\ kb = NoMarkup
    /\ hist = [u \in Users |->
                  IF u = 1 THEN [NoHist EXCEPT !.flow = "guide", !.stage = "a"] ELSE NoHist]

CapUpdates ==
    {TextUpd(t) : t \in {Sentinel} \cup PlainTexts}
    \cup {PhotoUpd(p, 1, "") : p \in 1..2}
    \cup {PhotoUpd(1, 0, "")}
    \cup {DocUpd(1, ok, "") : ok \in {"ok", "mime", "size"}}

NextCap ==
    \/ \E upd \in CapUpdates : receive_answer(1, upd)
    \/ \E upd \in CapUpdates : receive_answer_files(1, upd)
    \/ \E j \in jobs : check_album_timeout(j)
    \/ \E upd \in CapUpdates : perform_search(1, upd)
    \/ \E upd \in CapUpdates : Unhandled(1, upd)

SpecCap == InitCap /\ [][NextCap]_vars

(* Timers: user 1 builds guide entries with albums, one draft after another, *)
(* and cancels                                                               *)

InitTimer == InitWith(<<>>, <<>>, MaxDrafts)

TimerUpdates ==
    {TextUpd(t) : t \in {MenuAdd, Sentinel} \cup PlainTexts}
    \cup {PhotoUpd(1, 1, ""), CmdUpd("cancel")}

NextTimer ==
    \/ \E upd \in TimerUpdates : add_point(1, upd)
    \/ \E upd \in TimerUpdates : receive_question(1, upd)
    \/ \E upd \in TimerUpdates : receive_answer(1, upd)
    \/ \E upd \in TimerUpdates : receive_answer_files(1, upd)
    \/ \E j \in jobs : check_album_timeout(j)
    \/ \E upd \in TimerUpdates : cancel(1, upd)
    \/ \E upd \in TimerUpdates : perform_search(1, upd)
    \/ \E upd \in TimerUpdates : Unhandled(1, upd)

SpecTimer == InitTimer /\ [][NextTimer]_vars

(* Entering: user 1 opens add dialogs after other dialogs left a question, *)
(* an answer, an album and an edit target in the session                  *)

InitEntry == InitWith(<<Entry(2, "t1", "t1")>>, <<>>, MaxDrafts)

EntryUpdates ==
    {TextUpd(t) : t \in {MenuAdd, MenuEdit} \cup PlainTexts}
    \cup {CbUpd("add_template", "", 0), CbUpd("edit_question", "guide", 2)}
    \cup {PhotoUpd(1, 1, "")}

NextEntry ==
    \/ \E upd \in EntryUpdates : add_point(1, upd)
    \/ \E upd \in EntryUpdates : add_template(1, upd)
    \/ \E upd \in EntryUpdates : handle_template_action(1, upd)
    \/ \E upd \in EntryUpdates : receive_question(1, upd)
    \/ \E upd \in EntryUpdates : receive_answer(1, upd)
    \/ \E upd \in EntryUpdates : receive_answer_files(1, upd)
    \/ \E j \in jobs : check_album_timeout(j)
    \/ \E upd \in EntryUpdates : edit_point(1, upd)
    \/ \E upd \in EntryUpdates : select_edit_question(1, upd)
    \/ \E upd \in EntryUpdates : perform_search(1, upd)
    \/ \E upd \in EntryUpdates : Unhandled(1, upd)

SpecEntry == InitEntry /\ [][NextEntry]_vars

(* Two users: users 1 and 3 each add a guide entry, their messages and timers *)
(* interleaved                                                                *)

InitUsers == InitWith(<<>>, <<>>, 1)

OwnText(u) == IF u = 1 THEN "t1" ELSE "t3"

\* user 1 also sends an album photo
UserUpdates(u) ==
    {TextUpd(t) : t \in {MenuAdd, Sentinel, OwnText(u)}}
    \cup (IF u = 1 THEN {PhotoUpd(1, 1, "")} ELSE {})

NextUsers ==
    \/ \E u \in AllowedUsers : \E upd \in UserUpdates(u) : add_point(u, upd)
    \/ \E u \in AllowedUsers : \E upd \in UserUpdates(u) : receive_question(u, upd)
    \/ \E u \in AllowedUsers : \E upd \in UserUpdates(u) : receive_answer(u, upd)
    \/ \E u \in AllowedUsers : \E upd \in UserUpdates(u) : receive_answer_files(u, upd)
    \/ \E j \in jobs : check_album_timeout(j)
    \/ \E u \in AllowedUsers : \E upd \in UserUpdates(u) : perform_search(u, upd)
    \/ \E u \in AllowedUsers : \E upd \in UserUpdates(u) : Unhandled(u, upd)

SpecUsers == InitUsers /\ [][NextUsers]_vars

(* Paging: user 1 opens the lists and the edit lists of stored collections of *)
(* every length up to MaxTotal and clicks page buttons, also of pages that do *)
(* not exist                                                                  *)

Numbered(n) == [i \in 1..n |-> Entry(i, "t1", "t1")]

InitPages == \E n \in 0..MaxTotal : InitWith(Numbered(n), Numbered(n), 0)

PageNumbers == 0..TotalPages(MaxTotal)

PagesUpdates ==
    {TextUpd(t) : t \in {MenuGuide, MenuTemplates, MenuEdit}}
    \cup {CbUpd("edit_template", "", 0)}
    \cup {CbUpd(cb, dt, n) : cb \in {"page", "edit_page"}, dt \in {"guide", "template"},
                             n \in PageNumbers}

NextPages ==
    \/ \E upd \in PagesUpdates : open_guide(1, upd)
    \/ \E upd \in PagesUpdates : open_templates(1, upd)
    \/ \E upd \in PagesUpdates : handle_pagination(1, upd)
    \/ \E upd \in PagesUpdates : edit_point(1, upd)
    \/ \E upd \in PagesUpdates : edit_template(1, upd)
    \/ \E upd \in PagesUpdates : handle_template_action(1, upd)
    \/ \E upd \in PagesUpdates : handle_edit_pagination(1, upd)
    \/ \E upd \in PagesUpdates : Unhandled(1, upd)

SpecPages == InitPages /\ [][NextPages]_vars

(* Photos: user 1 edits the fields of two guide entries that hold photos and *)
(* a document                                                                *)

InitPhoto ==
    InitWith(<<[Entry(1, "t1", "t1") EXCEPT !.photos = <<2, 3>>, !.documents = <<1>>],
               [Entry(2, "t1", "c1") EXCEPT !.photos = <<3>>]>>, <<>>, 0)

PhotoUpdates ==
    {TextUpd(t) : t \in {MenuEdit} \cup PlainTexts}
    \cup {CbUpd("edit_question", "guide", n) : n \in {1, 2}}
    \cup {CbUpd(f, "guide", 0) : f \in {"field_photo", "field_answer"}}
    \cup {PhotoUpd(p, 0, "") : p \in {1, 2}}
    \cup {DocUpd(1, "ok", "")}

NextPhoto ==
    \/ \E upd \in PhotoUpdates : edit_point(1, upd)
    \/ \E upd \in PhotoUpdates : select_edit_question(1, upd)
    \/ \E upd \in PhotoUpdates : receive_edit_field(1, upd)
    \/ \E upd \in PhotoUpdates : receive_edit_value(1, upd)
    \/ \E upd \in PhotoUpdates : handle_invalid_input(1, upd)
    \/ \E upd \in PhotoUpdates : perform_search(1, upd)
    \/ \E upd \in PhotoUpdates : Unhandled(1, upd)

SpecPhoto == InitPhoto /\ [][NextPhoto]_vars

(* Mirroring: user 1 adds guide entries and deletes them while the remote *)
(* can or cannot be reached                                               *)

InitSync == \E up \in BOOLEAN : InitState(<<>>, <<>>, MaxDrafts, up)

SyncUpdates ==
    {TextUpd(t) : t \in {MenuAdd, MenuEdit, Sentinel} \cup PlainTexts}
    \cup {CbUpd("edit_question", "guide", 1), CbUpd("field_delete", "guide", 0)}

NextSync ==
    \/ \E upd \in SyncUpdates : add_point(1, upd)
    \/ \E upd \in SyncUpdates : receive_question(1, upd)
    \/ \E upd \in SyncUpdates : receive_answer(1, upd)
    \/ \E upd \in SyncUpdates : edit_point(1, upd)
    \/ \E upd \in SyncUpdates : select_edit_question(1, upd)
    \/ \E upd \in SyncUpdates : receive_edit_field(1, upd)
    \/ \E upd \in SyncUpdates : perform_search(1, upd)
    \/ \E upd \in SyncUpdates : Unhandled(1, upd)

SpecSync == InitSync /\ [][NextSync]_vars

-----------------------------------------------------------------------------
(* The debounce job and the photo handler as two threads.  The JobQueue runs
   check_album_timeout in a thread of its scheduler while the dispatcher
   thread runs the handlers, and both work on the same user_data with no
   lock.  Each callback is cut once, between its reading of pending_photos
   and its later statements; the dispatcher runs one handler at a time. *)

\* context.user_data['photos'].extend([pid for pid in unique_photos if pid not in ...])
ExtendPhotos(s) ==
    LET fresh(p) == p \notin Elems(s["photos"])
    IN Put(s, "photos", s["photos"] \o SelectSeq(Unique(s["pending_photos"]), fresh))

Thread(h, u, upd, open) == [h |-> h, u |-> u, upd |-> upd, open |-> open]

DispatcherIdle == \A t \in running : t.h # "receive_answer_files"

\* check_album_timeout up to the extension of photos: the job left the queue
\* when the scheduler started it
check_album_timeout_begin(j) ==
    LET u == j.u
        s == ud[u]
        open == AlbumOpen(s)
    IN
    /\ j \in jobs
    /\ jobs' = jobs \ {j}
    /\ loading' = [loading EXCEPT ![u] = DeleteLoading(@, Get(s, "loading_message_id", 0))]
    /\ ud' = [ud EXCEPT ![u] = IF open THEN ExtendPhotos(s) ELSE s]
    /\ running' = running \cup {Thread("check_album_timeout", u, NoUpd, open)}
    /\ UNCHANGED <<git, guide, templates, conv, out, acked, kb, hist>>

\* check_album_timeout from pending_photos = [] to its return
check_album_timeout_end(t) ==
    LET u == t.u
        s == ud[u]
        s1 == IF t.open THEN Put(s, "pending_photos", <<>>) ELSE s
    IN
    /\ t \in running /\ t.h = "check_album_timeout"
    /\ running' = running \ {t}
    /\ ud' = [ud EXCEPT ![u] = Update(s1, [media_group_id |-> 0, last_photo_time |-> 0,
                                           timeout_task |-> 0])]
    /\ out' = IF t.open THEN "photos_added" ELSE ""
    /\ acked' = "none"
    /\ kb' = NoMarkup
    /\ hist' = [hist EXCEPT ![u].timer = @ \/ t.open]
    /\ UNCHANGED <<git, guide, templates, conv, jobs, loading>>

\* receive_answer_files on a photo that is no part of an album, up to the
\* caption: the photo is appended to pending_photos
receive_answer_files_begin(u, upd) ==
    LET r == Route(conv[u], upd)
        s == FilesDefaults(Admit(u))
        new_photo == Largest(upd)
        s1 == IF new_photo \in Elems(s["pending_photos"]) THEN s
              ELSE Put(s, "pending_photos", Append(s["pending_photos"], new_photo))
    IN
    /\ u \in AllowedUsers /\ r.h = "receive_answer_files"
    /\ upd.k = "photo" /\ upd.group = 0
    /\ Len(s["photos"]) + Len(s["documents"]) < MAX_MEDIA_PER_ALBUM
    /\ Len(hist[u].arrived) < MaxArrived
    /\ ud' = [ud EXCEPT ![u] = WithCaption(s1, upd)]
    /\ running' = running \cup {Thread("receive_answer_files", u, upd, FALSE)}
    /\ UNCHANGED <<git, guide, templates, conv, jobs, loading, out, acked, kb, hist>>

\* receive_answer_files on that photo from the reading of pending_photos to
\* the return: what is pending moves to photos and the chat is told
receive_answer_files_end(t) ==
    LET u == t.u
        s == ud[u]
        r == Route(conv[u], t.upd)
    IN
    /\ t \in running /\ t.h = "receive_answer_files"
    /\ running' = running \ {t}
    /\ ud' = [ud EXCEPT ![u] = FlushPending(s)]
    /\ Return(u, r.c, AnswerPhotosState(DataType(s)))
    /\ out' = "photos_added"
    /\ acked' = "none"
    /\ kb' = NoMarkup
    /\ UNCHANGED <<git, guide, templates, jobs, loading>>
    /\ Observe(u, t.upd, "", Largest(t.upd))

InitRace == InitWith(<<>>, <<>>, MaxAlbumDrafts)

RaceUpdates ==
    {TextUpd(t) : t \in {MenuAdd, Sentinel} \cup PlainTexts}
    \cup {PhotoUpd(1, 1, ""), PhotoUpd(2, 0, "")}

NextRace ==
    \/ DispatcherIdle /\ \E upd \in RaceUpdates : add_point(1, upd)
    \/ DispatcherIdle /\ \E upd \in RaceUpdates : receive_question(1, upd)
    \/ DispatcherIdle /\ \E upd \in RaceUpdates : receive_answer(1, upd)
    \/ DispatcherIdle /\ \E upd \in RaceUpdates : receive_answer_files(1, upd)
    \/ DispatcherIdle /\ \E upd \in RaceUpdates : receive_answer_files_begin(1, upd)
    \/ \E t \in running : receive_answer_files_end(t)
    \/ \E j \in jobs : check_album_timeout_begin(j)
    \/ \E t \in running : check_album_timeout_end(t)
    \/ DispatcherIdle /\ \E upd \in RaceUpdates : perform_search(1, upd)
    \/ DispatcherIdle /\ \E upd \in RaceUpdates : Unhandled(1, upd)

SpecRace == InitRace /\ [][NextRace]_vars

(* Identifiers under two users: user 1 edits entries of the guide while
   user 3 deletes entries and adds new ones *)
InitReuse == InitWith(<<Entry(1, "t1", "t1"), Entry(2, "t1", "t1")>>, <<>>, 1)

ReuseUpdates(u) ==
    {TextUpd(MenuEdit), CbUpd("edit_question", "guide", 2)}
    \cup (IF u = 1 THEN {CbUpd("field_answer", "guide", 0), TextUpd("c1")}
          ELSE {CbUpd("field_delete", "guide", 0)}
               \cup {TextUpd(t) : t \in {MenuAdd, Sentinel, OwnText(u)}})

NextReuse ==
    \/ \E u \in AllowedUsers : \E upd \in ReuseUpdates(u) : add_point(u, upd)
    \/ \E u \in AllowedUsers : \E upd \in ReuseUpdates(u) : receive_question(u, upd)
    \/ \E u \in AllowedUsers : \E upd \in ReuseUpdates(u) : receive_answer(u, upd)
    \/ \E u \in AllowedUsers : \E upd \in ReuseUpdates(u) : edit_point(u, upd)
    \/ \E u \in AllowedUsers : \E upd \in ReuseUpdates(u) : select_edit_question(u, upd)
    \/ \E u \in AllowedUsers : \E upd \in ReuseUpdates(u) : receive_edit_field(u, upd)
    \/ \E u \in AllowedUsers : \E upd \in ReuseUpdates(u) : receive_edit_value(u, upd)
    \/ \E u \in AllowedUsers : \E upd \in ReuseUpdates(u) : perform_search(u, upd)
    \/ \E u \in AllowedUsers : \E upd \in ReuseUpdates(u) : Unhandled(u, upd)

SpecReuse == InitReuse /\ [][NextReuse]_vars

(* Captions: user 1 builds one guide entry from photos with and without a
   caption, sent alone or as parts of an album *)
InitCaption == InitWith(<<>>, <<>>, 1)

CaptionUpdates ==
    {TextUpd(t) : t \in {MenuAdd, Sentinel} \cup PlainTexts}
    \cup {PhotoUpd(1, 1, "c1"), PhotoUpd(2, 1, ""), PhotoUpd(2, 0, "c1")}

NextCaption ==
    \/ \E upd \in CaptionUpdates : add_point(1, upd)
    \/ \E upd \in CaptionUpdates : receive_question(1, upd)
    \/ \E upd \in CaptionUpdates : receive_answer(1, upd)
    \/ \E upd \in CaptionUpdates : receive_answer_files(1, upd)
    \/ \E j \in jobs : check_album_timeout(j)
    \/ \E upd \in CaptionUpdates : perform_search(1, upd)
    \/ \E upd \in CaptionUpdates : Unhandled(1, upd)

SpecCaption == InitCaption /\ [][NextCaption]_vars

(* Answers: user 1 opens answers of the guide, presses their delete buttons
   and resets the session, while the deletion jobs run *)
InitShown ==
    InitChat(<<Entry(1, "t1", "t1"), [Entry(2, "t1", "c1") EXCEPT !.photos = <<1, 2>>]>>,
             <<>>, 1, TRUE, TRUE)

\* a click on a delete button is CbUpd("delete_answer", dt, n), the button
\* standing under the answer to entry n of dt
ShownUpdates ==
    {TextUpd(t) : t \in {MenuGuide, MenuAdd}}
    \cup {CmdUpd("cancel")}
    \cup {CbUpd(cb, "guide", n) : cb \in {"question", "delete_answer"}, n \in 1..2}

NextShown ==
    \/ \E upd \in ShownUpdates : open_guide(1, upd)
    \/ \E upd \in ShownUpdates : show_answer(1, upd)
    \/ \E upd \in ShownUpdates : delete_answer(1, upd)
    \/ \E ids \in loading[1].due : schedule_message_deletion(1, ids)
    \/ \E upd \in ShownUpdates : add_point(1, upd)
    \/ \E upd \in ShownUpdates : cancel(1, upd)
    \/ \E upd \in ShownUpdates : receive_question(1, upd)

SpecShown == InitShown /\ [][NextShown]_vars

\* the message lists an answer to an entry of the guide can have
ShownLists == {[i \in 1..k |-> <<"guide", n, i>>] : n \in 1..2, k \in 1..3}

\* JobQueue.run_once: each scheduled job is run when its time has come
SpecShownFair ==
    SpecShown /\ \A ids \in ShownLists : WF_vars(schedule_message_deletion(1, ids))

-----------------------------------------------------------------------------
(* Properties *)

CollAfter(dt) == IF dt = "guide" THEN guide' ELSE templates'
Other(dt) == IF dt = "guide" THEN "template" ELSE "guide"
AddConv(dt) == IF dt = "guide" THEN "guide_add" ELSE "template_add"
EditConv(dt) == IF dt = "guide" THEN "guide_edit" ELSE "template_edit"
AnswerState(dt) == IF dt = "guide" THEN GUIDE_ANSWER ELSE TEMPLATE_ANSWER
Kinds == {"guide", "template"}

\* u sends the sentinel after opening an add dialog and sending a question and
\* answers, and the session is active
AddRunEnds(u) ==
    /\ hist[u].flow # "none" /\ hist[u].stage = "a"
    /\ Active(ud[u])
    /\ Deliver(u, TextUpd(Sentinel))

\* C1: an add dialog run of a listed user (add_point or add_template, a question
\* text, any answers, then the sentinel while the session is active) appends
\* exactly one entry to the collection of the dialog, with id = largest id + 1
\* (1 on an empty collection), and changes no other entry of either collection.
C1_AddRunAppendsOne ==
    [][\A u \in AllowedUsers : AddRunEnds(u) =>
          LET dt == hist[u].flow
              coll == Coll(dt)
              after == CollAfter(dt)
          IN /\ Len(after) = Len(coll) + 1
             /\ SubSeq(after, 1, Len(coll)) = coll
             /\ after[Len(after)].id = MaxId(coll) + 1
             /\ CollAfter(Other(dt)) = Coll(Other(dt))]_vars

HasContent(e) == e.answer # "" \/ e.photos # <<>> \/ e.documents # <<>>

\* C6: every stored entry has a non-empty answer, a photo or a document.
C6_EntriesHaveContent ==
    /\ \A i \in 1..Len(guide) : HasContent(guide[i])
    /\ \A i \in 1..Len(templates) : HasContent(templates[i])

\* u, in the ANSWER state of an add dialog on an active session with a question,
\* sends text t
AnswersWith(u, dt, t) ==
    /\ conv[u][AddConv(dt)] = AnswerState(dt)
    /\ Active(ud[u]) /\ Has(ud[u], "new_question") /\ DataType(ud[u]) = dt
    /\ Deliver(u, TextUpd(t))

\* C8 as claimed: a bare text in the ANSWER state commits at once: one entry
\* with the question and that answer is appended and the session is reset.
C8_TextCommitsAtOnce ==
    [][\A dt \in Kinds, t \in PlainTexts : AnswersWith(1, dt, t) =>
          /\ CollAfter(dt) = Append(Coll(dt), Entry(MaxId(Coll(dt)) + 1,
                                                    ud[1]["new_question"], t))
          /\ ~Active(ud'[1])]_vars

\* u sends the sentinel to an add dialog on an active session holding a question
\* and the answer t, without attachments
DoneWith(u, dt, t) ==
    /\ conv[u][AddConv(dt)] = AnswerPhotosState(dt)
    /\ Active(ud[u]) /\ Has(ud[u], "new_question") /\ DataType(ud[u]) = dt
    /\ Get(ud[u], "answer", "") = t
    /\ Get(ud[u], "photos", <<>>) = <<>> /\ Get(ud[u], "documents", <<>>) = <<>>
    /\ Get(ud[u], "pending_photos", <<>>) = <<>>
    /\ Deliver(u, TextUpd(Sentinel))

\* C8 amended: a bare text in the ANSWER state is kept as the answer of the
\* draft, the dialog goes on in ANSWER_PHOTOS and nothing is saved; the sentinel
\* that follows appends one entry with the question and that answer (id 1 on an
\* empty collection), resets the session and ends the dialog.
C8_TextThenSentinelCommits ==
    [][\A dt \in Kinds, t \in PlainTexts :
          /\ AnswersWith(1, dt, t) =>
                /\ UNCHANGED <<guide, templates>>
                /\ ud'[1]["answer"] = t
                /\ ud'[1]["new_question"] = ud[1]["new_question"]
                /\ Active(ud'[1])
                /\ conv'[1][AddConv(dt)] = AnswerPhotosState(dt)
          /\ DoneWith(1, dt, t) =>
                /\ CollAfter(dt) = Append(Coll(dt), Entry(MaxId(Coll(dt)) + 1,
                                                          ud[1]["new_question"], t))
                /\ Coll(dt) = <<>> => CollAfter(dt)[1].id = 1
                /\ CollAfter(Other(dt)) = Coll(Other(dt))
                /\ ud'[1] = Reset(Upper(dt) \o "_FILES_SAVED")
                /\ conv'[1][AddConv(dt)] = END]_vars

\* an entry saved from a question and an answer text, on an empty collection
C8_Witness ==
    /\ templates = <<Entry(1, "t1", "t1")>>
    /\ ud[1] = Reset("TEMPLATE_FILES_SAVED")
    /\ conv[1]["template_add"] = END

\* C2 as claimed: once check_album_timeout and an interrupting message were both
\* handled for a draft, in either order, exactly one entry is saved for it.
C2_TimerAndInterruptSaveOne ==
    \A u \in AllowedUsers : hist[u].timer /\ hist[u].intr => hist[u].saves = 1

\* C2 amended: neither check_album_timeout nor a message that interrupts an open
\* album saves an entry, and point_saved stays false; a draft is saved by the
\* sentinel only, which appends exactly one entry and resets the session, so no
\* draft is saved twice.
C2_OnlySentinelCommits ==
    [][/\ \A u \in AllowedUsers :
             /\ hist'[u].saves <= 1
             /\ Has(ud'[u], "point_saved") => ud'[u]["point_saved"] = FALSE
       /\ \A j \in jobs : check_album_timeout(j) => UNCHANGED <<guide, templates>>
       /\ \A u \in AllowedUsers, upd \in AlbumUpdates :
             AlbumOpen(ud[u]) /\ upd # TextUpd(Sentinel) /\ Deliver(u, upd)
                 => UNCHANGED <<guide, templates>>
       /\ Grown # 0 =>
             /\ Grown = 1
             /\ \E u \in AllowedUsers :
                   /\ hist[u].saves = 0
                   /\ Deliver(u, TextUpd(Sentinel))
                   /\ ud'[u] = Reset(Upper(DataType(ud[u])) \o "_FILES_SAVED")]_vars

\* the timer ran on an open album, a text interrupted an album, nothing is saved
C2_Witness ==
    /\ hist[1].timer /\ hist[1].intr /\ hist[1].saves = 0
    /\ Get(ud[1], "answer", "") = "t1"
    /\ Len(Get(ud[1], "photos", <<>>)) = 2
    /\ guide = <<>>

Distinct(seq) == \A i, j \in 1..Len(seq) : i # j => seq[i] # seq[j]

\* check_album_timeout runs for user 1 after three photos of one album came and
\* nothing else
ThreeThenTimer(j) ==
    /\ j.u = 1
    /\ Len(hist[1].arrived) = 3 /\ Distinct(hist[1].arrived)
    /\ Get(ud[1], "pending_photos", <<>>) = hist[1].arrived
    /\ ~hist[1].intr
    /\ check_album_timeout(j)

\* C9 as claimed: when the timer fires after three photos of one album, one
\* entry holding the three photos in arrival order is saved, point_saved is
\* true and the loading message is deleted.
C9_TimerSavesAlbum ==
    [][\A j \in jobs : ThreeThenTimer(j) =>
          LET dt == DataType(ud[1]) IN
          /\ Len(CollAfter(dt)) = Len(Coll(dt)) + 1
          /\ CollAfter(dt)[Len(CollAfter(dt))].photos = hist[1].arrived
          /\ Get(ud'[1], "point_saved", FALSE)
          /\ Get(ud[1], "loading_message_id", 0) \notin loading'[1].shown]_vars

\* user 1 sends the sentinel after the timer moved three photos of one album
\* into the draft
DoneAfterAlbum ==
    /\ hist[1].timer /\ ~hist[1].intr
    /\ Len(hist[1].arrived) = 3 /\ Distinct(hist[1].arrived)
    /\ Active(ud[1]) /\ Has(ud[1], "new_question")
    /\ conv[1][AddConv(DataType(ud[1]))] = AnswerPhotosState(DataType(ud[1]))
    /\ Deliver(1, TextUpd(Sentinel))

\* C9 amended: when the timer fires after three photos of one album, nothing is
\* saved: the photos of the draft are the three photos in arrival order, no
\* photo is pending, point_saved stays false and the loading message is
\* deleted; the sentinel that follows saves one entry with these three photos.
C9_TimerKeepsAlbum ==
    [][/\ \A j \in jobs : ThreeThenTimer(j) =>
             /\ UNCHANGED <<guide, templates>>
             /\ ud'[1]["photos"] = hist[1].arrived
             /\ ud'[1]["pending_photos"] = <<>>
             /\ ud'[1]["point_saved"] = FALSE
             /\ Get(ud[1], "loading_message_id", 0) \notin loading'[1].shown
       /\ DoneAfterAlbum =>
             LET dt == DataType(ud[1]) IN
             /\ Len(CollAfter(dt)) = Len(Coll(dt)) + 1
             /\ SubSeq(CollAfter(dt), 1, Len(Coll(dt))) = Coll(dt)
             /\ CollAfter(dt)[Len(CollAfter(dt))].photos = hist[1].arrived]_vars

\* the entry saved after an album of three photos
C9_Witness ==
    /\ Len(guide) = 1 /\ guide[1].photos = <<2, 1, 3>>
    /\ hist[1].timer /\ ~hist[1].intr
    /\ loading[1].sent = 1 /\ loading[1].shown = {}

FirstAt(seq, x) == CHOOSE i \in 1..Len(seq) : seq[i] = x /\ \A j \in 1..(i - 1) : seq[j] # x

\* photos holds photos of arrived, each once, in the order of their first arrival
InFirstArrivalOrder(photos, arrived) ==
    /\ Distinct(photos)
    /\ Elems(photos) \subseteq Elems(arrived)
    /\ \A i, j \in 1..Len(photos) :
          i < j => FirstAt(arrived, photos[i]) < FirstAt(arrived, photos[j])

\* C10: a photo delivered more than once is once in the photos of the draft
\* and of the saved entry, at the place of its first arrival, and the other
\* photos keep their arrival order.
C10_PhotosOnceInArrivalOrder ==
    /\ [](\A u \in AllowedUsers : Has(ud[u], "photos") =>
              /\ InFirstArrivalOrder(ud[u]["photos"], hist[u].arrived)
              /\ ~AlbumOpen(ud[u]) => Elems(ud[u]["photos"]) = Elems(hist[u].arrived))
    /\ [][\A u \in AllowedUsers : AddRunEnds(u) /\ Grown = 1 =>
              LET after == CollAfter(DataType(ud[u])) IN
              /\ InFirstArrivalOrder(after[Len(after)].photos, hist[u].arrived)
              /\ Elems(after[Len(after)].photos) = Elems(hist[u].arrived)]_vars

\* photo 2 came twice, before and after photo 1
C10_Witness ==
    /\ hist[1].arrived = <<2, 1, 2>>
    /\ ud[1]["photos"] = <<2, 1>>
    /\ ~AlbumOpen(ud[1])

\* C3: handling an update while conversation_active is false leaves both
\* collections unchanged.
C3_InactiveNeverWrites ==
    [][\A u \in AllowedUsers, upd \in EditUpdates :
          ~Active(ud[u]) /\ Deliver(u, upd) => UNCHANGED <<guide, templates>>]_vars

\* C4: whatever a user outside the allow-list sends is answered with the denial
\* message and changes neither the collections nor the session nor the dialogs
\* of that user.
C4_UnlistedAlwaysDenied ==
    [][\A u \in Users \ AllowedUsers, upd \in UnlistedUpdates :
          Deliver(u, upd) => out' = "denied" /\ UNCHANGED <<guide, templates, ud, conv>>]_vars

\* C5: the ids of the entries of a collection are positive and pairwise
\* distinct.
C5_IdsPositiveDistinct ==
    \A dt \in Kinds : \A i \in 1..Len(Coll(dt)) :
        /\ Coll(dt)[i].id > 0
        /\ \A j \in 1..Len(Coll(dt)) : i # j => Coll(dt)[i].id # Coll(dt)[j].id

\* entry 2 was deleted after entry 3 was added, and one more entry was added
C5_Witness == Len(guide) = 2 /\ guide[1].id = 3 /\ guide[2].id = 4

\* u clicks "delete" in the edit dialog of dt after entry n was selected
DeleteChosen(u, dt, n) ==
    /\ conv[u][EditConv(dt)] = EditFieldState(dt)
    /\ Get(ud[u], "edit_question_id", 0) = n
    /\ Deliver(u, CbUpd("field_delete", dt, 0))

RemoveAt(coll, i) == SubSeq(coll, 1, i - 1) \o SubSeq(coll, i + 1, Len(coll))

\* C7: after "delete" is clicked for the selected id n, the collection of the
\* dialog has no entry with id n and its other entries are as before, in the
\* same order; the other collection is unchanged, the session is reset with
\* conversation_active false, and the dialog has ended.
C7_DeleteRemovesChosen ==
    [][\A u \in AllowedUsers, dt \in Kinds, n \in 1..(MaxEntries + 1) :
          DeleteChosen(u, dt, n) =>
              /\ ~HasId(CollAfter(dt), n)
              /\ IF HasId(Coll(dt), n)
                 THEN \E i \in 1..Len(Coll(dt)) :
                          Coll(dt)[i].id = n /\ CollAfter(dt) = RemoveAt(Coll(dt), i)
                 ELSE CollAfter(dt) = Coll(dt)
              /\ CollAfter(Other(dt)) = Coll(Other(dt))
              /\ ud'[u] = Reset(Upper(dt) \o "_POINT_DELETED")
              /\ ~Active(ud'[u])
              /\ conv'[u][EditConv(dt)] = END]_vars

\* entry 1 of the guide was deleted, entry 3 is as it was
C7_Witness ==
    /\ guide = <<Entry(3, "t1", "c1")>>
    /\ ud[1] = Reset("GUIDE_POINT_DELETED")
    /\ conv[1]["guide_edit"] = END

Attachments(e) == Len(Get(e, "photos", <<>>)) + Len(Get(e, "documents", <<>>))

\* C11: a draft holds at most MAX_MEDIA_PER_ALBUM attachments (photos and
\* documents), and so does every stored entry.
C11_AttachmentsWithinCap ==
    /\ \A u \in AllowedUsers : Attachments(ud[u]) <= MAX_MEDIA_PER_ALBUM
    /\ \A dt \in Kinds : \A i \in 1..Len(Coll(dt)) :
          Attachments(Coll(dt)[i]) <= MAX_MEDIA_PER_ALBUM

\* the fields of the draft
DraftOf(s) ==
    [question |-> Get(s, "new_question", ""), answer |-> Get(s, "answer", ""),
     photos |-> Get(s, "photos", <<>>), documents |-> Get(s, "documents", <<>>),
     pending_photos |-> Get(s, "pending_photos", <<>>)]

BadDocs == {DocUpd(d, ok, cap) : d \in DocIds, ok \in {"mime", "size"}, cap \in Captions}

\* u sends a document of a refused type or size to a dialog collecting attachments
RejectedDoc(u, upd) ==
    /\ Route(conv[u], upd).h = "receive_answer_files"
    /\ Deliver(u, upd)

JobsAfter(u) == {j \in jobs' : j.u = u}

\* C13: /cancel in a dialog ends the dialog, resets the session and leaves no
\* check_album_timeout job of the user pending.
C13_CancelEndsAndStopsTimer ==
    [][\A u \in AllowedUsers :
          Route(conv[u], CmdUpd("cancel")).c # "dp" /\ Deliver(u, CmdUpd("cancel")) =>
              /\ conv'[u][Route(conv[u], CmdUpd("cancel")).c] = END
              /\ ud'[u] = Reset("CANCELLED")
              /\ JobsAfter(u) = {}]_vars

\* user_data holds what a reset leaves
IsReset(s) == DOMAIN s = {"conversation_state", "conversation_active"} /\ ~Active(s)

\* C14: when a session is reset, no check_album_timeout job of its user stays
\* pending.
C14_NoJobAfterReset ==
    [][\A u \in AllowedUsers :
          ud'[u] # ud[u] /\ IsReset(ud'[u]) => JobsAfter(u) = {}]_vars

AlbumPhotos == {PhotoUpd(p, 1, cap) : p \in PhotoIds, cap \in Captions}

\* C17: a photo of an open album that receive_answer_files takes removes the
\* job recorded in timeout_task and schedules a new one, recorded in its place;
\* and the job that flushes pending photos is the job recorded in timeout_task,
\* the one scheduled when the latest photo of the album arrived.
C17_OnlyLatestJobFlushes ==
    [][/\ \A u \in AllowedUsers, upd \in AlbumPhotos :
             /\ AlbumOpen(ud[u])
             /\ Route(conv[u], upd).h = "receive_answer_files"
             /\ Deliver(u, upd)
             => LET old == {j \in UserJobs(u) : j.id = Get(ud[u], "timeout_task", 0)}
                IN /\ \E j \in JobsAfter(u) : j.id = ud'[u]["timeout_task"]
                   /\ Cardinality(JobsAfter(u))
                          = Cardinality(UserJobs(u)) - Cardinality(old) + 1
       /\ \A j \in jobs :
             AlbumOpen(ud[j.u]) /\ check_album_timeout(j)
                 => Get(ud[j.u], "timeout_task", 0) = j.id]_vars

\* the handlers of the steps of a dialog
StepHandlers ==
    {"receive_question", "receive_answer", "receive_answer_files",
     "select_edit_question", "receive_edit_field", "receive_edit_value"}

\* C15: a dialog step handler that gets input while conversation_active is
\* false answers with the request to start again, resets the session, keeping
\* nothing of the input, and ends the dialog.
C15_InactiveInputRejected ==
    [][\A u \in AllowedUsers, upd \in EditUpdates :
          /\ ~Active(ud[u])
          /\ Route(conv[u], upd).h \in StepHandlers
          /\ Deliver(u, upd)
          => /\ out' = "restart"
             /\ IsReset(ud'[u])
             /\ conv'[u][Route(conv[u], upd).c] = END]_vars

\* u sends upd, which is no photo of an album and not the sentinel, while
\* photos of an album are pending
Interrupts(u, upd) ==
    /\ AlbumOpen(ud[u])
    /\ upd.k \in {"text", "photo", "document"} /\ upd.group = 0
    /\ upd # TextUpd(Sentinel)
    /\ Deliver(u, upd)

\* new is old followed by the photos of pend that old lacks, each once, in the
\* order of pend
Flushed(old, pend, new) ==
    /\ Len(new) >= Len(old) /\ SubSeq(new, 1, Len(old)) = old
    /\ LET tail == SubSeq(new, Len(old) + 1, Len(new))
       IN /\ InFirstArrivalOrder(tail, pend)
          /\ Elems(tail) = Elems(pend) \ Elems(old)

\* C16 as claimed: a message that is not a photo of the open album cancels the
\* debounce job and moves the pending photos, and only them, into photos.
C16_InterruptClosesAlbum ==
    [][\A upd \in CapUpdates : Interrupts(1, upd) =>
          /\ ~\E j \in JobsAfter(1) : j.id = Get(ud[1], "timeout_task", 0)
          /\ DraftOf(ud'[1]).pending_photos = <<>>
          /\ Flushed(DraftOf(ud[1]).photos, DraftOf(ud[1]).pending_photos,
                     DraftOf(ud'[1]).photos)]_vars

\* C16 amended: such a message never cancels the debounce job and saves
\* nothing.  A text becomes the answer and leaves the pending photos pending;
\* a document is added to documents when it is accepted and new, and leaves
\* the pending photos pending; a photo without album id is put after the
\* pending photos and all of them are moved into photos.  When the draft
\* already holds MAX_MEDIA_PER_ALBUM attachments, a photo or document is
\* refused and the pending photos alone are moved into photos.
C16_InterruptKeepsTimer ==
    [][\A upd \in CapUpdates : Interrupts(1, upd) =>
          LET old == DraftOf(ud[1])
              new == DraftOf(ud'[1])
          IN /\ jobs' = jobs
             /\ UNCHANGED <<guide, templates>>
             /\ new.question = old.question
             /\ CASE upd.k = "text" -> new = [old EXCEPT !.answer = upd.text]
                  [] upd.k # "text" /\ Attachments(ud[1]) >= MAX_MEDIA_PER_ALBUM ->
                        /\ new.pending_photos = <<>>
                        /\ Flushed(old.photos, old.pending_photos, new.photos)
                        /\ new.documents = old.documents
                  [] upd.k = "photo" /\ Attachments(ud[1]) < MAX_MEDIA_PER_ALBUM ->
                        /\ new.pending_photos = <<>>
                        /\ Flushed(old.photos, Append(old.pending_photos, upd.file),
                                   new.photos)
                        /\ new.documents = old.documents
                  [] upd.k = "document" /\ Attachments(ud[1]) < MAX_MEDIA_PER_ALBUM ->
                        /\ new.pending_photos = old.pending_photos
                        /\ new.photos = old.photos
                        /\ new.documents =
                              IF upd.ok = "ok" /\ upd.file \notin Elems(old.documents)
                              THEN Append(old.documents, upd.file)
                              ELSE old.documents]_vars

\* a text came while a photo of an album was pending: the photo still waits for
\* the debounce job
C16_Witness ==
    /\ out = "answer_saved"
    /\ DraftOf(ud[1]) = [question |-> "t1", answer |-> "t1", photos |-> Stock,
                         documents |-> <<>>, pending_photos |-> <<1>>]
    /\ \E j \in UserJobs(1) : j.id = ud[1]["timeout_task"]

\* C18: when check_album_timeout runs on a draft with pending photos, the
\* pending photos the draft lacks are put after its photos in arrival order and
\* none stays pending, the recorded loading message is deleted, the album id
\* and the job handle are cleared, and the collections, the rest of the draft
\* and the dialogs are as before.
C18_TimerFlushesPending ==
    [][\A j \in jobs : AlbumOpen(ud[j.u]) /\ check_album_timeout(j) =>
          LET u == j.u
              old == DraftOf(ud[u])
              new == DraftOf(ud'[u])
          IN /\ new.pending_photos = <<>>
             /\ Flushed(old.photos, old.pending_photos, new.photos)
             /\ new.question = old.question /\ new.answer = old.answer
             /\ new.documents = old.documents
             /\ Get(ud[u], "loading_message_id", 0) \notin loading'[u].shown
             /\ ud'[u]["media_group_id"] = 0 /\ ud'[u]["timeout_task"] = 0
             /\ j \notin jobs'
             /\ UNCHANGED <<guide, templates, conv>>]_vars

\* the timer moved an album of photos 1 and 2 into a draft that held photo 1
C18_Witness ==
    /\ hist[1].timer /\ hist[1].arrived = <<1, 1, 2>>
    /\ DraftOf(ud[1]) = [question |-> "t1", answer |-> "", photos |-> <<1, 2>>,
                         documents |-> <<>>, pending_photos |-> <<>>]
    /\ out = "photos_added" /\ guide = <<>>
    /\ loading[1].shown = {}

FreshDraft(s, dt) ==
    /\ ~Has(s, "new_question") /\ ~Has(s, "answer")
    /\ ~Has(s, "documents") /\ ~Has(s, "pending_photos")
    /\ ~Has(s, "edit_question_id")
    /\ Get(s, "photos", <<>>) = <<>>
    /\ Get(s, "media_group_id", 0) = 0
    /\ Active(s) /\ DataType(s) = dt

QuestionStates == {GUIDE_QUESTION, TEMPLATE_QUESTION}

EntersQuestion(u, c) ==
    /\ conv'[u][c] \in QuestionStates
    /\ conv'[u][c] # conv[u][c]

\* C19: add_point and add_template leave a session with no question, answer,
\* photo, document, pending photo, album id or edit target and with the
\* dialog active, and an add dialog enters its QUESTION state by no other
\* handler
C19_QuestionStartsFresh ==
    [][/\ \A upd \in EntryUpdates :
            /\ add_point(1, upd) => FreshDraft(ud'[1], "guide")
            /\ add_template(1, upd) => FreshDraft(ud'[1], "template")
       /\ EntersQuestion(1, "guide_add") =>
            /\ conv'[1]["guide_add"] = GUIDE_QUESTION
            /\ \E upd \in EntryUpdates : add_point(1, upd)
       /\ EntersQuestion(1, "template_add") =>
            /\ conv'[1]["template_add"] = TEMPLATE_QUESTION
            /\ \E upd \in EntryUpdates : add_template(1, upd)]_vars

C19_Witness ==
    /\ conv[1]["template_add"] = TEMPLATE_QUESTION
    /\ conv[1]["guide_add"] = GUIDE_ANSWER_PHOTOS
    /\ conv[1]["guide_edit"] = GUIDE_EDIT_FIELD
    /\ jobs # {}
    /\ FreshDraft(ud[1], "template")
    /\ out = "ask_question"

MenuUpdates == {upd \in AddUpdates : upd.k = "text" /\ upd.text \in MenuTexts}

\* C20: a menu text sent in any dialog state starts its action on a reset
\* session, and is never stored as the question or the answer of the draft
C20_MenuActionRestarts ==
    [][\A upd \in MenuUpdates : Deliver(1, upd) =>
          /\ add_point(1, upd)
          /\ FreshDraft(ud'[1], "guide")
          /\ Get(ud'[1], "new_question", "") # upd.text
          /\ Get(ud'[1], "answer", "") # upd.text]_vars

FailureReplies == {"error", "page_error", "edit_page_error", "field_error", "value_error"}

\* C21: after a handler answered with a failure message the session of the
\* user holds the ERROR marker with conversation_active false and nothing else
C21_FailureLeavesErrorOnly ==
    out \in FailureReplies => ud[1] = Reset("ERROR")

\* C22: query.answer() is called for every button click delivered to the bot
C22_EveryClickAcknowledged ==
    acked # "no"

Peer(u) == CHOOSE v \in AllowedUsers : v # u

SentTexts(u) == {upd.text : upd \in {x \in UserUpdates(u) : x.k = "text"}}

\* the dispatcher handles message upd of user u
Sends(u, upd) ==
    \/ add_point(u, upd) \/ receive_question(u, upd) \/ receive_answer(u, upd)
    \/ receive_answer_files(u, upd) \/ perform_search(u, upd) \/ Unhandled(u, upd)

\* the entry user u's step appended holds what u's session and u's messages gave
SavedFrom(u) ==
    LET e == guide'[Len(guide')] IN
    /\ Has(ud[u], "new_question") /\ e.question = ud[u]["new_question"]
    /\ e.question \in SentTexts(u)
    /\ e.answer \in SentTexts(u) \cup {""}
    /\ Elems(e.photos) \subseteq Elems(hist[u].arrived)
    /\ e.documents = <<>>

\* C23: a message or a timer of one user leaves the session and the dialogs
\* of the other user as they were, and an entry a user's step saves holds only
\* the question, the answer and the photos that user sent
C23_UsersIsolated ==
    [][/\ ud'[1] = ud[1] \/ ud'[3] = ud[3]
       /\ conv'[1] = conv[1] \/ conv'[3] = conv[3]
       /\ \A u \in AllowedUsers : ud'[Peer(u)] # ud[Peer(u)] =>
             /\ \A upd \in UserUpdates(u) : ~Sends(u, upd)
             /\ \A j \in UserJobs(u) : ~check_album_timeout(j)
       /\ \A u \in AllowedUsers : guide' # guide /\ ud'[u] # ud[u] =>
             /\ guide' = Append(guide, guide'[Len(guide')])
             /\ SavedFrom(u)]_vars

C23_Witness ==
    /\ Len(guide) = 2
    /\ guide[1].question = "t3" /\ guide[1].answer = "t3" /\ guide[1].photos = <<>>
    /\ guide[2].question = "t1" /\ guide[2].photos = <<1>>
    /\ hist[1].timer

\* the items of pages 0 .. k - 1, in page order
RECURSIVE JoinItems(_, _)
JoinItems(items, k) ==
    IF k = 0 THEN <<>> ELSE JoinItems(items, k - 1) \o VisibleItems(items, k - 1)

\* the item buttons of pages 0 .. k - 1 of a list, in page order
RECURSIVE JoinButtons(_, _, _, _)
JoinButtons(items, dt, edit, k) ==
    IF k = 0 THEN <<>>
    ELSE JoinButtons(items, dt, edit, k - 1) \o Markup(items, k - 1, dt, edit).items

\* C24: the items shown on pages 0 .. ceil(total / 15) - 1 of a collection,
\* joined in page order, are the entries of the collection, each once and in
\* order, in the list and in the edit list of the guide and of the templates
C24_PagesRebuildList ==
    \A dt \in Kinds, edit \in BOOLEAN :
        LET items == Coll(dt)
            pages == TotalPages(Len(items))
        IN /\ JoinItems(items, pages) = items
           /\ JoinButtons(items, dt, edit, pages)
                 = [i \in 1..Len(items) |-> ItemData(dt, edit, items[i].id)]

C24_Witness ==
    /\ Len(guide) = 2 * ITEMS_PER_PAGE + 1
    /\ out = "edit_page" /\ ud[1]["page"] = 2
    /\ kb.items = <<ItemData("guide", TRUE, 2 * ITEMS_PER_PAGE + 1)>>

PageClicks == {upd \in PagesUpdates : upd.cb \in {"page", "edit_page"}}

Requests == (-1)..TotalPages(MaxTotal)

\* page is the request brought into 0 .. pages - 1
ClampedTo(page, request, pages) ==
    /\ page \in 0..(pages - 1)
    /\ request \in 0..(pages - 1) => page = request
    /\ request < 0 => page = 0
    /\ request > pages - 1 => page = pages - 1

\* markup offers "previous" exactly on a page after the first and "next"
\* exactly on a page before the last, each with the page next to it
OffersNeighbours(markup, page, pages, dt, edit) ==
    LET nav == Elems(markup.nav)
        turns == {b \in nav : b[Len(b) - 1] = "page"} IN
    /\ PageData(dt, edit, page - 1) \in nav <=> page > 0
    /\ PageData(dt, edit, page + 1) \in nav <=> page < pages - 1
    /\ turns \subseteq {PageData(dt, edit, page - 1), PageData(dt, edit, page + 1)}

\* C25: a page of a non-empty collection is rendered and stored as the
\* requested page clamped into 0 .. ceil(total / 15) - 1, for every request,
\* with "previous" and "next" offered exactly where a neighbour page exists
C25_PageClampedWithNeighbours ==
    [][/\ \A upd \in PageClicks :
            LET data == Get(ud[1], "data", LoadData(upd.text))
                pages == TotalPages(Len(data.items))
            IN /\ data.items # <<>> /\ data.key = Key(upd.text)
               /\ handle_pagination(1, upd) \/ handle_edit_pagination(1, upd)
               => /\ out' \in {"page", "edit_page"}
                  /\ ClampedTo(ud'[1]["page"], upd.n, pages)
                  /\ OffersNeighbours(kb', ud'[1]["page"], pages, upd.text,
                                      upd.cb = "edit_page")
       /\ \A dt \in Kinds, edit \in BOOLEAN, request \in Requests :
            LET items == Coll(dt)
                pages == TotalPages(Len(items))
                page == ClampPage(request, Len(items))
            IN items # <<>> =>
                  /\ ClampedTo(page, request, pages)
                  /\ OffersNeighbours(Markup(items, page, dt, edit), page, pages, dt, edit)]_vars

C25_Witness ==
    /\ Len(templates) = ITEMS_PER_PAGE + 1
    /\ out = "page" /\ ud[1]["page"] = 1
    /\ kb.nav = <<PageData("template", FALSE, 0)>> \o FixedButtons("template", FALSE)

\* C26: no page message is produced for an empty collection
C26_NoPageOfEmptyList ==
    out \in {"page", "edit_page"} => ud[1]["data"].items # <<>>

\* the update a click on a button with callback_data b is, as show_answer,
\* handle_pagination, select_edit_question and handle_edit_pagination split it
Click(b) ==
    IF b[1] = "edit" THEN CbUpd("edit_" \o b[3], b[2], b[4]) ELSE CbUpd(b[2], b[1], b[3])

ItemClicks == {upd \in EditUpdates : upd.cb \in {"question", "edit_question"}}

\* C27: an item button carries the kind and the id of its entry and a click
\* on it is parsed to that kind and id; the click selects the entry that has
\* the id now, and when no entry has it nothing is selected or changed and
\* "not found" is answered
C27_ItemButtonsResolveById ==
    /\ [](out \in {"page", "edit_page"} =>
            LET s == ud[1]
                shown == VisibleItems(s["data"].items, s["page"])
            IN /\ Len(kb.items) = Len(shown)
               /\ \A i \in 1..Len(shown) :
                     Click(kb.items[i])
                        = CbUpd(IF out = "edit_page" THEN "edit_question" ELSE "question",
                                s["data_type"], shown[i].id))
    /\ [][\A upd \in ItemClicks :
            show_answer(1, upd) \/ select_edit_question(1, upd) =>
               IF HasId(Coll(upd.text), upd.n)
               THEN /\ out' \in {"answer", "choose_field"}
                    /\ upd.n \in {Get(ud'[1], "current_question_id", 0),
                                  Get(ud'[1], "edit_question_id", 0)}
               ELSE /\ out' = "not_found"
                    /\ ud'[1] = Admit(1)
                    /\ UNCHANGED <<guide, templates, conv>>]_vars

PhotoValues == {upd \in PhotoUpdates : upd.k = "photo"}

\* C28: a photo sent as the new value of the photo field replaces the photos
\* of the chosen entry: its list holds references of the new photo only, its
\* id, question and answer stay, and no other entry changes
C28_PhotoEditReplaces ==
    [][\A upd \in PhotoValues :
          LET s == ud[1]
              id == Get(s, "edit_question_id", 0)
          IN /\ Get(s, "edit_field", <<>>) = <<"guide", "field_photo">>
             /\ DataType(s) = "guide" /\ HasId(guide, id)
             /\ receive_edit_value(1, upd)
             => LET i == IndexOfId(guide, id) IN
                /\ Len(guide') = Len(guide)
                /\ Largest(upd) \in Elems(guide'[i].photos)
                /\ Elems(guide'[i].photos) \subseteq Elems(PhotoSizes(upd.file))
                /\ guide'[i].id = id
                /\ guide'[i].question = guide[i].question
                /\ guide'[i].answer = guide[i].answer
                /\ \A k \in 1..Len(guide) : k # i => guide'[k] = guide[k]
                /\ templates' = templates
                /\ out' = "edited"]_vars

C28_Witness ==
    /\ out = "edited"
    /\ guide[1].photos = PhotoSizes(1) /\ guide[1].question = "t1"
    /\ guide[2].photos = <<3>>

\* the replies that tell the user that the remote copy was not updated
SyncWarnings == {"saved_not_mirrored", "deleted_not_mirrored"}

\* C29: when the push fails after a collection was written, the written
\* collection stays, the operation ends as committed, and the user is told
\* that mirroring failed
C29_SyncFailureWarned ==
    [][(guide' # guide \/ templates' # templates) /\ ~git'.mirrored =>
          /\ out' \in {"saved", "deleted"} \cup SyncWarnings
          /\ ud'[1] \in {Reset("GUIDE_FILES_SAVED"), Reset("GUIDE_POINT_DELETED")}
          /\ out' \in SyncWarnings]_vars

\* C30: whatever the interleaving of check_album_timeout with the photo
\* handler, the entry an add dialog saves holds every photo a handler
\* accepted into its draft.
C30_NoPhotoLostToDebounce ==
    [][Grown = 1 =>
          LET after == CollAfter(DataType(ud[1])) IN
          Elems(hist[1].arrived) \subseteq Elems(after[Len(after)].photos)]_vars

\* the entry of the list in session s that the selected button stood for
Selected(s) == LET items == s["data"].items IN items[IndexOfId(items, s["edit_question_id"])]

\* C31: no id is given to a second entry of a collection, so that the edit or
\* the delete user 1 commits changes or removes no entry but the one user 1
\* selected in the list of the session, whatever user 3 deleted and added in
\* between.
C31_CommitHitsSelectedEntry ==
    [][/\ guide' # guide /\ ud'[1] # ud[1]
       /\ Has(ud[1], "edit_question_id") /\ Has(ud[1], "data")
       /\ HasId(ud[1]["data"].items, ud[1]["edit_question_id"])
       => \A e \in Elems(guide) \ Elems(guide') : e = Selected(ud[1])]_vars

\* C32: a user has at most one check_album_timeout job pending, and the
\* timeout_task of the user's session is that job.
C32_OneJobKnownToSession ==
    \A u \in AllowedUsers :
        /\ Cardinality(UserJobs(u)) <= 1
        /\ \A j \in UserJobs(u) : Get(ud[u], "timeout_task", 0) = j.id

OpenDialogs(u) == {c \in Convs : conv[u][c] # END}

\* C33: for one user at most one of the four dialogs is in a state other
\* than END.
C33_OneDialogOpen ==
    \A u \in AllowedUsers : Cardinality(OpenDialogs(u)) <= 1

GuideAddStates == {END, GUIDE_QUESTION, GUIDE_ANSWER, GUIDE_ANSWER_PHOTOS}
TemplateAddStates == {END, TEMPLATE_QUESTION, TEMPLATE_ANSWER, TEMPLATE_ANSWER_PHOTOS}

\* C34: the guide add dialog is only ever ended or in one of its three guide
\* states, and the template add dialog only ever ended or in one of its three
\* template states.
C34_StatesOfOwnFamily ==
    \A u \in AllowedUsers :
        /\ conv[u]["guide_add"] \in GuideAddStates
        /\ conv[u]["template_add"] \in TemplateAddStates

\* the dispatcher handles the text of the add button sent by user u
SendsAdd(u) ==
    LET upd == TextUpd(MenuAdd) IN
    \/ add_point(u, upd) \/ receive_question(u, upd) \/ receive_answer(u, upd)
    \/ perform_search(u, upd) \/ Unhandled(u, upd)

\* C35: when /cancel was the message handled last and the add button comes
\* next, the guide add dialog enters GUIDE_QUESTION with a fresh active
\* session.
C35_CancelThenAddRestarts ==
    [][/\ acked = "none" /\ out \in {"cancelled", "error"}
       /\ SendsAdd(1)
       => /\ conv'[1]["guide_add"] = GUIDE_QUESTION
          /\ ud'[1] = NewDraft("guide")]_vars

Captioned == {upd \in CaptionUpdates : upd.k = "photo" /\ upd.cap # ""}

\* C36: a photo with a caption that a handler accepts into the draft leaves
\* the caption as the answer of the draft when no answer was stored, and the
\* stored answer as it was otherwise; the entry saved by the sentinel has the
\* answer of the draft.
C36_CaptionBecomesAnswer ==
    [][/\ hist'[1].arrived # hist[1].arrived
          => \A upd \in Captioned :
                receive_answer(1, upd) \/ receive_answer_files(1, upd) =>
                   Get(ud'[1], "answer", "") =
                      IF Get(ud[1], "answer", "") = "" THEN upd.cap ELSE ud[1]["answer"]
       /\ Grown = 1 => guide'[Len(guide')].answer = Get(ud[1], "answer", "")]_vars

\* the messages of the answer to entry n of the guide
AnswerTo(n) == Elems(MessageIds("guide", guide[IndexOfId(guide, n)]))

\* C37: a click on the delete button under an answer whose messages are in
\* the chat removes the messages of that answer and no other message.
C37_DeleteButtonRemovesItsAnswer ==
    [][\A n \in 1..2 :
          /\ AnswerTo(n) \subseteq loading[1].answers
          /\ delete_answer(1, CbUpd("delete_answer", "guide", n))
          => loading'[1].answers = loading[1].answers \ AnswerTo(n)]_vars

ShownMessages == {<<"guide", n, i>> : n \in 1..2, i \in 1..3}

\* C38: every message of an answer in the chat is in the list of a pending
\* deletion job, whatever became of the session, and is deleted in the end,
\* by the delete button or by that job.
C38_AnswersDeletedInTheEnd ==
    /\ [](\A m \in loading[1].answers : \E ids \in loading[1].due : m \in Elems(ids))
    /\ \A m \in ShownMessages :
          (m \in loading[1].answers) ~> (m \notin loading[1].answers)

\* the job ran after /cancel had reset the session, and the chat holds no answer
C38_Witness ==
    /\ ud[1] = Reset("CANCELLED") /\ out = ""
    /\ loading[1].answers = {} /\ loading[1].due = {}

\* C39: a text sent in EDIT_VALUE when the photo field was selected changes
\* no entry, leaves the edit dialog in EDIT_VALUE and is not confirmed as an
\* edit.
C39_TextForPhotoRejected ==
    [][\A t \in PlainTexts :
          /\ Get(ud[1], "edit_field", <<>>) = <<"guide", "field_photo">>
          /\ receive_edit_value(1, TextUpd(t))
          => /\ guide' = guide /\ templates' = templates
             /\ conv'[1]["guide_edit"] = GUIDE_EDIT_VALUE
             /\ out' # "edited"]_vars

====
